---- MODULE Spec2Model ----
(***************************************************************************)
(* Publish orchestration pipeline and per-operator scheduler of the news   *)
(* bot (src/app.py): AutoPublishScheduler.auto_publish_task, the           *)
(* start/stop of per-operator jobs, the Database tables it reads and       *)
(* writes, and the settings handlers that drive it.                        *)
(*                                                                         *)
(* Every `await` of auto_publish_task is one step of the run, so runs of   *)
(* different operators interleave exactly at the suspension points of the  *)
(* code.  Remote calls (GNews, GPT, WordPress, Telegram) answer            *)
(* nondeterministically.                                                   *)
(***************************************************************************)
EXTENDS Integers, Sequences, FiniteSets, TLC

\* ------------------------------------------------------------------ bounds

\* Total number of firings of auto_publish_task in a behaviour.
MaxRuns == 2

\* Total number of settings callbacks handled in a behaviour.
MaxOps == 2

\* Total number of confirm_delete_article callbacks handled in a behaviour.
MaxDeletes == 1

\* Total number of drafts saved in a behaviour.
MaxDrafts == 1

\* Database settings calls one handler task makes.
MaxCalls == 2

\* Total number of manual publish callbacks handled in a behaviour.
MaxManual == 1

\* Retries of a failed manual publication.
MaxRetries == 1

\* Longest title given to extract_keywords_from_title.
MaxTitleLen == 7

\* Largest max_words given to extract_keywords_from_title.
MaxWords == 2

\* Longest text, in tokens, given to html_to_telegram.
MaxHtmlLen == 4

\* ------------------------------------------------------------ input domains

\* Operator (Telegram user) ids.
Users == {1, 2}

\* Python's None for the optional ids and urls (ids of real rows are >= 1).
None == 0

\* Interval buttons offered by change_interval_handler, in minutes.
Intervals == {60, 180}

\* Characters titles are made of, and str.lower() on them.
LowerChar(c) ==
    CASE c = "K" -> "k"
      [] c = "L" -> "l"
      [] OTHER   -> c

\* Titles the rewriter may return: two differ only in case.
Titles == { <<"K", "y">>, <<"k", "y">>, <<"L", "v">> }

\* Titles the fingerprint-only specification adds: they fall into five
\* classes after lower-casing; three of the classes differ only in leading or
\* trailing whitespace.
FingerprintTitles ==
    { << "K", "L" >>, << "k", "L" >>, << "K", "l" >>, << "k", "l" >>,
      << " ", "k", "l" >>, << " ", "K", "l" >>,
      << "k", "l", " " >>,
      << "L", "k" >>, << "l", "k" >>,
      << "k", "y" >> }

\* Category names the rewriter may return; "Nowhere" is not in wp_categories.
CategoryNames == {"World", "Nowhere"}

\* The wp_categories table: name -> id.
wp_categories == [World |-> 1, Home |-> 2]

\* Values an operator's enabled_categories column may hold.
CategorySets == { {}, {1}, {2} }

\* The five fields generate_article requires.
RequiredFields == {"title", "category", "excerpt", "content", "seo_description"}

\* ---------------------------------------------------------------- state

VARIABLES
    user_settings,          \* table user_settings: [Users -> Seq(row)]
    published_articles,     \* table published_articles: set of rows
    next_article_id,        \* SERIAL of published_articles.id
    article_fingerprints,   \* table article_fingerprints: set of rows
    logs,                   \* table logs: [Users -> Seq(row)]
    jobs,                   \* AsyncIOScheduler job store: Seq(job)
    wp_posts,               \* posts living on the site
    next_wp_id,             \* the site's post id sequence
    channel,                \* messages living in the channel
    next_tg_id,             \* the channel's message id sequence
    pc,                     \* [Users -> position of the operator's run]
    run,                    \* [Users -> locals of the operator's run]
    trace,                  \* [Users -> calls made by the operator's run]
    nruns,                  \* firings so far
    nops,                   \* settings callbacks so far
    drafts,                 \* table drafts: set of rows
    next_draft_id,          \* SERIAL of drafts.id
    deletion,               \* [Users -> locals and position of the operator's
                            \*  confirm_delete_article_handler call]
    ndeletes,               \* confirm_delete_article callbacks so far
    manual,                 \* [Users -> locals and position of the operator's
                            \*  publish_handler / process_manual_publish call]
    calls,                  \* [Callers -> position of a Database settings call]
    util                    \* the last call of a text utility and its result

\* The drafts table and the article deletion handler.
deleteVars == << drafts, next_draft_id, deletion, ndeletes >>

\* The manual publish handlers and the Database calls taken step by step.
handlerVars == << manual, calls, util >>

vars == << user_settings, published_articles, next_article_id,
           article_fingerprints, logs, jobs, wp_posts, next_wp_id,
           channel, next_tg_id, pc, run, trace, nruns, nops, deleteVars,
           handlerVars >>

dbVars == << user_settings, published_articles, next_article_id,
             article_fingerprints, logs >>

remoteVars == << wp_posts, next_wp_id, channel, next_tg_id >>

\* ------------------------------------------------------------- Database

\* title.lower()
Lower(title) == [i \in DOMAIN title |-> LowerChar(title[i])]

\* A bug the digest could have: the title is hashed as written.
TitleHash_case_sensitive(title) == << "md5", title >>

\* hashlib.md5(title.lower().encode()).hexdigest(): a digest of the
\* lower-cased title (digest collisions of distinct strings are not modelled).
TitleHash(title) == << "md5", Lower(title) >>

\* A bug check_duplicate could have: the stored title is compared as written,
\* without lower-casing.
check_duplicate_exact(fps, title) ==
    \E row \in fps : row.original_title = title

\* Database.check_duplicate
check_duplicate(fps, title) ==
    \E row \in fps : row.title_hash = TitleHash(title)

\* A bug add_article_fingerprint could have: ON CONFLICT DO UPDATE, the
\* stored title replaced by the newcomer's.
add_article_fingerprint_overwrite(fps, title) ==
    { row \in fps : row.title_hash # TitleHash(title) }
        \cup { [title_hash |-> TitleHash(title), original_title |-> title] }

\* Database.add_article_fingerprint: INSERT ... ON CONFLICT DO NOTHING
add_article_fingerprint(fps, title) ==
    IF \E row \in fps : row.title_hash = TitleHash(title)
    THEN fps
    ELSE fps \cup { [title_hash |-> TitleHash(title), original_title |-> title] }

\* The row get_user_settings inserts for an operator that has none.
DefaultSettings(u) ==
    [ user_id               |-> u,
      auto_publish_enabled  |-> FALSE,
      auto_publish_interval |-> 180,
      auto_publish_to_wp    |-> TRUE,
      auto_publish_to_tg    |-> FALSE,
      enabled_categories    |-> {},
      last_publish_time     |-> 0 ]

\* Database.get_user_settings: the table afterwards.
SettingsAfterGet(tbl, u) ==
    IF tbl[u] # << >> THEN tbl
    ELSE [tbl EXCEPT ![u] = << DefaultSettings(u) >>]

\* Database.get_user_settings: the dict returned.
get_user_settings(tbl, u) ==
    IF tbl[u] # << >> THEN tbl[u][1] ELSE DefaultSettings(u)

\* Database.update_user_setting: ensure the row, then UPDATE ... WHERE user_id.
update_user_setting(tbl, u, key, value) ==
    LET t == SettingsAfterGet(tbl, u)
    IN  [t EXCEPT ![u] = [i \in DOMAIN t[u] |-> [t[u][i] EXCEPT ![key] = value]]]

\* Database.update_last_publish_time: UPDATE ... SET last_publish_time = NOW().
update_last_publish_time(tbl, u) ==
    [tbl EXCEPT ![u] =
        [i \in DOMAIN tbl[u] |->
            [tbl[u][i] EXCEPT !.last_publish_time = @ + 1]]]

\* Database.get_category_id_by_name
get_category_id_by_name(name) ==
    IF name \in DOMAIN wp_categories THEN wp_categories[name] ELSE None

\* Database.log_action
log_action(tbl, u, action, status, message) ==
    [tbl EXCEPT ![u] =
        Append(@, [action |-> action, status |-> status, message |-> message])]

\* ------------------------------------------------------------ scheduler

\* Operators and intervals the scheduler-only specification draws its calls
\* from (every button of change_interval_handler).
SchedUsers == {1, 2, 3}

AllIntervals == {60, 120, 180, 360, 720}

\* job_id = f"auto_publish_{user_id}"
job_id(u) == << "auto_publish", u >>

\* AsyncIOScheduler.get_job(job_id) is not None
get_job(js, id) == \E i \in DOMAIN js : js[i].id = id

\* AsyncIOScheduler.remove_job(job_id)
remove_job(js, id) == SelectSeq(js, LAMBDA j : j.id # id)

\* AsyncIOScheduler.add_job(..., id=job_id, replace_existing=True)
add_job(js, job) ==
    IF get_job(js, job.id)
    THEN [i \in DOMAIN js |-> IF js[i].id = job.id THEN job ELSE js[i]]
    ELSE Append(js, job)

\* A bug start_user_schedule could have: the job id also carries the interval,
\* so a re-registration with another interval adds a second job.
start_user_schedule_keyed_by_interval(js, u, interval_minutes) ==
    LET id == << "auto_publish", u, interval_minutes >>
    IN  add_job(IF get_job(js, id) THEN remove_job(js, id) ELSE js,
                [id |-> id, minutes |-> interval_minutes, args |-> << u >>])

\* A bug start_user_schedule could have: a job already registered for the
\* operator is kept as it is.
start_user_schedule_keep_existing(js, u, interval_minutes) ==
    IF get_job(js, job_id(u)) THEN js
    ELSE Append(js, [id |-> job_id(u), minutes |-> interval_minutes,
                     args |-> << u >>])

\* AutoPublishScheduler.start_user_schedule: the job store afterwards.
start_user_schedule(js, u, interval_minutes) ==
    add_job(IF get_job(js, job_id(u)) THEN remove_job(js, job_id(u)) ELSE js,
            [id |-> job_id(u), minutes |-> interval_minutes, args |-> << u >>])

\* A bug stop_user_schedule could have: scheduler.remove_all_jobs().
stop_user_schedule_remove_all(js, u) == << >>

\* AutoPublishScheduler.stop_user_schedule: the job store afterwards.
stop_user_schedule(js, u) ==
    IF get_job(js, job_id(u)) THEN remove_job(js, job_id(u)) ELSE js

\* The jobs whose firing invokes auto_publish_task(u).
JobsOf(js, u) == { i \in DOMAIN js : js[i].args = << u >> }

\* ------------------------------------------------------- settings handlers

\* A bug toggle_auto_handler could have: switching off also cancels the
\* operator's run in flight.
ToggleAutoHandler_cancels_run(u) ==
    /\ nops < MaxOps
    /\ LET settings   == get_user_settings(user_settings, u)
           new_status == ~settings.auto_publish_enabled
       IN  /\ user_settings' = update_user_setting(user_settings, u,
                                   "auto_publish_enabled", new_status)
           /\ jobs' = IF new_status
                      THEN start_user_schedule(jobs, u,
                               settings.auto_publish_interval)
                      ELSE stop_user_schedule(jobs, u)
           /\ pc' = IF new_status \/ pc[u] = "idle" THEN pc
                    ELSE [pc EXCEPT ![u] = "done"]
    /\ nops' = nops + 1
    /\ UNCHANGED << published_articles, next_article_id, article_fingerprints,
                    logs, remoteVars, run, trace, nruns, deleteVars,
                    handlerVars >>

\* toggle_auto_handler
ToggleAutoHandler(u) ==
    /\ nops < MaxOps
    /\ LET settings   == get_user_settings(user_settings, u)
           new_status == ~settings.auto_publish_enabled
       IN  /\ user_settings' = update_user_setting(user_settings, u,
                                   "auto_publish_enabled", new_status)
           /\ jobs' = IF new_status
                      THEN start_user_schedule(jobs, u,
                               settings.auto_publish_interval)
                      ELSE stop_user_schedule(jobs, u)
    /\ nops' = nops + 1
    /\ UNCHANGED << published_articles, next_article_id, article_fingerprints,
                    logs, remoteVars, pc, run, trace, nruns, deleteVars,
                    handlerVars >>

\* A bug set_interval_handler could have: the interval is stored and the
\* operator's job is left as registered.
SetIntervalHandler_store_only(u, interval) ==
    /\ nops < MaxOps
    /\ user_settings' = update_user_setting(user_settings, u,
                            "auto_publish_interval", interval)
    /\ nops' = nops + 1
    /\ UNCHANGED << published_articles, next_article_id, article_fingerprints,
                    logs, jobs, remoteVars, pc, run, trace, nruns, deleteVars,
                    handlerVars >>

\* set_interval_handler
SetIntervalHandler(u, interval) ==
    /\ nops < MaxOps
    /\ LET tbl      == update_user_setting(user_settings, u,
                           "auto_publish_interval", interval)
           settings == get_user_settings(tbl, u)
       IN  /\ user_settings' = tbl
           /\ jobs' = IF settings.auto_publish_enabled
                      THEN start_user_schedule(jobs, u, interval)
                      ELSE jobs
    /\ nops' = nops + 1
    /\ UNCHANGED << published_articles, next_article_id, article_fingerprints,
                    logs, remoteVars, pc, run, trace, nruns, deleteVars,
                    handlerVars >>

\* toggle_wp_handler
ToggleWpHandler(u) ==
    /\ nops < MaxOps
    /\ LET settings == get_user_settings(user_settings, u)
       IN  user_settings' = update_user_setting(user_settings, u,
               "auto_publish_to_wp", ~settings.auto_publish_to_wp)
    /\ nops' = nops + 1
    /\ UNCHANGED << published_articles, next_article_id, article_fingerprints,
                    logs, jobs, remoteVars, pc, run, trace, nruns, deleteVars,
                    handlerVars >>

\* toggle_tg_handler
ToggleTgHandler(u) ==
    /\ nops < MaxOps
    /\ LET settings == get_user_settings(user_settings, u)
       IN  user_settings' = update_user_setting(user_settings, u,
               "auto_publish_to_tg", ~settings.auto_publish_to_tg)
    /\ nops' = nops + 1
    /\ UNCHANGED << published_articles, next_article_id, article_fingerprints,
                    logs, jobs, remoteVars, pc, run, trace, nruns, deleteVars,
                    handlerVars >>

\* Database.update_user_setting(user_id, 'enabled_categories', value)
UpdateEnabledCategories(u, cats) ==
    /\ nops < MaxOps
    /\ user_settings' = update_user_setting(user_settings, u,
                            "enabled_categories", cats)
    /\ nops' = nops + 1
    /\ UNCHANGED << published_articles, next_article_id, article_fingerprints,
                    logs, jobs, remoteVars, pc, run, trace, nruns, deleteVars,
                    handlerVars >>

\* ------------------------------------------- auto_publish_task: one run

\* A call made by a run and whether it returned (TRUE) or raised (FALSE);
\* for search_news, which never raises, FALSE is an error of the aggregator.
Ev(call, ok) == [call |-> call, ok |-> ok]

\* The locals of auto_publish_task before its first statement.
InitRun(u) ==
    [ settings          |-> DefaultSettings(u),
      image             |-> FALSE,      \* main_news.get('image')
      sources           |-> 0,          \* len(sources)
      fields            |-> {},         \* keys of the rewriter's JSON object
      title             |-> << >>,      \* article['title']
      category          |-> "",         \* article['category']
      category_id       |-> None,
      dup               |-> "unchecked",\* what check_duplicate answered
      featured_media_id |-> None,
      wp_post_id        |-> None,
      wp_url            |-> None,
      tg_message_id     |-> None,
      error             |-> "",         \* str(e) of the exception caught
      outcome           |-> "none" ]

\* The run of operator u moves to `to`, its locals become `r`, and it has
\* made the calls `evs`.
Step(u, to, r, evs) ==
    /\ pc' = [pc EXCEPT ![u] = to]
    /\ run' = [run EXCEPT ![u] = r]
    /\ trace' = [trace EXCEPT ![u] = @ \o evs]

\* The run returns.
Return(u, r, outcome, evs) ==
    Step(u, "done", [r EXCEPT !.outcome = outcome], evs)

\* An exception reaches `except Exception as e`.
Raise(u, r, error, evs) ==
    Step(u, "log_error", [r EXCEPT !.error = error], evs)

\* The scheduler fires the operator's job: auto_publish_task(u) starts.
Fire(u) ==
    /\ pc[u] \in {"idle", "done"}
    /\ JobsOf(jobs, u) # {}
    /\ nruns < MaxRuns
    /\ nruns' = nruns + 1
    /\ pc' = [pc EXCEPT ![u] = "get_settings"]
    /\ run' = [run EXCEPT ![u] = InitRun(u)]
    /\ trace' = [trace EXCEPT ![u] = << >>]
    /\ UNCHANGED << dbVars, jobs, remoteVars, nops, deleteVars,
                    handlerVars >>

\* auto_publish_task(u) called directly, whatever the job store holds.
Invoke(u) ==
    /\ pc[u] \in {"idle", "done"}
    /\ nruns < MaxRuns
    /\ nruns' = nruns + 1
    /\ pc' = [pc EXCEPT ![u] = "get_settings"]
    /\ run' = [run EXCEPT ![u] = InitRun(u)]
    /\ trace' = [trace EXCEPT ![u] = << >>]
    /\ UNCHANGED << dbVars, jobs, remoteVars, nops, deleteVars,
                    handlerVars >>

\* A bug the enabled gate could have: the run goes on whatever the setting.
GetSettings_no_gate(u) ==
    /\ pc[u] = "get_settings"
    /\ user_settings' = SettingsAfterGet(user_settings, u)
    /\ Step(u, "search_seed",
            [run[u] EXCEPT !.settings = get_user_settings(user_settings, u)],
            << >>)
    /\ UNCHANGED << published_articles, next_article_id, article_fingerprints,
                    logs, jobs, remoteVars, nruns, nops, deleteVars,
                    handlerVars >>

\* settings = await self.db.get_user_settings(user_id); the enabled gate.
GetSettings(u) ==
    /\ pc[u] = "get_settings"
    /\ user_settings' = SettingsAfterGet(user_settings, u)
    /\ LET settings == get_user_settings(user_settings, u)
           r        == [run[u] EXCEPT !.settings = settings]
       IN  IF ~settings.auto_publish_enabled
           THEN Return(u, r, "disabled", << >>)
           ELSE Step(u, "search_seed", r, << >>)
    /\ UNCHANGED << published_articles, next_article_id, article_fingerprints,
                    logs, jobs, remoteVars, nruns, nops, deleteVars,
                    handlerVars >>

\* news = await self.gnews.search_news(query="Україна", ...): search_news
\* swallows every error and answers [] then.
SearchSeed(u) ==
    /\ pc[u] = "search_seed"
    /\ \/ Step(u, "notify_no_news", run[u], << Ev("search_news", TRUE) >>)
       \/ Step(u, "search_sources", run[u], << Ev("search_news", TRUE) >>)
       \/ \* error status or exception of the aggregator: logged, [] returned
          Step(u, "notify_no_news", run[u], << Ev("search_news", FALSE) >>)
    /\ UNCHANGED << dbVars, jobs, remoteVars, nruns, nops, deleteVars,
                    handlerVars >>

\* await self.bot.send_message(user_id, text); return -- of a gate that
\* stops the run.  A send that raises reaches the except clause.
NotifyAndReturn(u, at, text, outcome) ==
    /\ pc[u] = at
    /\ \/ Return(u, run[u], outcome, << Ev(text, TRUE) >>)
       \/ Raise(u, run[u], "send_message failed", << Ev(text, FALSE) >>)
    /\ UNCHANGED << dbVars, jobs, remoteVars, nruns, nops, deleteVars,
                    handlerVars >>

\* A bug the empty-seed gate could have: the return is missing, the run goes
\* on to the secondary search after the message.
NotifyNoNews_continue(u) ==
    /\ pc[u] = "notify_no_news"
    /\ \/ Step(u, "search_sources", run[u], << Ev("send_message:no_news", TRUE) >>)
       \/ Raise(u, run[u], "send_message failed",
                << Ev("send_message:no_news", FALSE) >>)
    /\ UNCHANGED << dbVars, jobs, remoteVars, nruns, nops, deleteVars,
                    handlerVars >>

\* if not news: send "новини не знайдено"; return
NotifyNoNews(u) ==
    NotifyAndReturn(u, "notify_no_news", "send_message:no_news", "no_news")

\* sources = await self.gnews.search_news(query=query_words, ...): an
\* aggregator error gives [] as well, so n = 0 stands for both.
SearchSources(u) ==
    /\ pc[u] = "search_sources"
    /\ \E n \in {0, 1} :
         Step(u, "generate", [run[u] EXCEPT !.sources = n],
              << Ev("search_news", TRUE) >>)
    /\ UNCHANGED << dbVars, jobs, remoteVars, nruns, nops, deleteVars,
                    handlerVars >>

\* The JSON objects the rewriter may answer with: complete, or one field short.
ResponseShapes == { RequiredFields } \cup { RequiredFields \ {f} : f \in RequiredFields }

\* A bug the validation could have: only the title is required.
ResponseValid_title_only(fields) == "title" \in fields

\* generate_article's validation: all(field in article_data for field in required)
ResponseValid(fields) == \A f \in RequiredFields : f \in fields

\* article = await self.gpt.generate_article(sources).  `sources` is not read
\* again after this call (save_published_article's INSERT has no sources
\* column), so the run forgets it here.
Generate(u) ==
    /\ pc[u] = "generate"
    /\ \/ Raise(u, run[u], "GPT request failed",
                << Ev("generate_article", FALSE) >>)
       \/ \E fields \in ResponseShapes, title \in Titles, category \in CategoryNames :
            IF ResponseValid(fields)
            THEN Step(u, "resolve_category",
                      [run[u] EXCEPT !.fields = fields, !.title = title,
                                     !.category = category, !.sources = 0],
                      << Ev("generate_article", TRUE) >>)
            ELSE Raise(u, [run[u] EXCEPT !.fields = fields],
                       "Missing required fields in GPT response",
                       << Ev("generate_article", FALSE) >>)
    /\ UNCHANGED << dbVars, jobs, remoteVars, nruns, nops, deleteVars,
                    handlerVars >>

\* if enabled_cats and category_id not in enabled_cats
CategoryFiltered(enabled_cats, category_id) ==
    enabled_cats # {} /\ category_id \notin enabled_cats

\* A bug the order of the gates could have: the run goes from the category
\* filter straight to the publication.
ResolveCategory_skips_duplicate_check(u) ==
    /\ pc[u] = "resolve_category"
    /\ LET category_id == get_category_id_by_name(run[u].category)
           r           == [run[u] EXCEPT !.category_id = category_id]
       IN  IF CategoryFiltered(run[u].settings.enabled_categories, category_id)
           THEN Step(u, "notify_skipped", r, << >>)
           ELSE Step(u, "upload_image", r, << >>)
    /\ UNCHANGED << dbVars, jobs, remoteVars, nruns, nops, deleteVars,
                    handlerVars >>

\* category_id = await self.db.get_category_id_by_name(...); the category gate.
ResolveCategory(u) ==
    /\ pc[u] = "resolve_category"
    /\ LET category_id == get_category_id_by_name(run[u].category)
           r           == [run[u] EXCEPT !.category_id = category_id]
       IN  IF CategoryFiltered(run[u].settings.enabled_categories, category_id)
           THEN Step(u, "notify_skipped", r, << >>)
           ELSE Step(u, "check_duplicate", r, << >>)
    /\ UNCHANGED << dbVars, jobs, remoteVars, nruns, nops, deleteVars,
                    handlerVars >>

\* send "Статтю пропущено (категорія ... вимкнена)"; return
NotifySkipped(u) ==
    NotifyAndReturn(u, "notify_skipped", "send_message:skipped", "skipped")

\* if await self.db.check_duplicate(article['title']): the duplicate gate.
CheckDuplicate(u) ==
    /\ pc[u] = "check_duplicate"
    /\ IF check_duplicate(article_fingerprints, run[u].title)
       THEN Step(u, "notify_duplicate", [run[u] EXCEPT !.dup = "yes"], << >>)
       ELSE Step(u, "upload_image", [run[u] EXCEPT !.dup = "no"], << >>)
    /\ UNCHANGED << dbVars, jobs, remoteVars, nruns, nops, deleteVars,
                    handlerVars >>

\* send "Виявлено дублікат статті"; return
NotifyDuplicate(u) ==
    NotifyAndReturn(u, "notify_duplicate", "send_message:duplicate", "duplicate")

\* A bug the upload could have: its exception is not caught and reaches the
\* except clause of the task.
UploadImage_failure_raises(u) ==
    /\ pc[u] = "upload_image"
    /\ \E image \in BOOLEAN :
         IF image
         THEN \/ Step(u, "create_post",
                      [run[u] EXCEPT !.image = TRUE, !.featured_media_id = 1],
                      << Ev("upload_image", TRUE) >>)
              \/ Raise(u, [run[u] EXCEPT !.image = TRUE], "Image upload failed",
                       << Ev("upload_image", FALSE) >>)
         ELSE Step(u, "create_post", run[u], << >>)
    /\ UNCHANGED << dbVars, jobs, remoteVars, nruns, nops, deleteVars,
                    handlerVars >>

\* if main_news.get('image'): try upload_image except: logger.warning
\* (the upload does not look at settings['auto_publish_to_wp']).  Whether the
\* seed article carries an image is read here for the first time, so it is
\* drawn here.
UploadImage(u) ==
    /\ pc[u] = "upload_image"
    /\ \E image \in BOOLEAN :
         IF image
         THEN \/ Step(u, "create_post",
                      [run[u] EXCEPT !.image = TRUE, !.featured_media_id = 1],
                      << Ev("upload_image", TRUE) >>)
              \/ Step(u, "create_post", [run[u] EXCEPT !.image = TRUE],
                      << Ev("upload_image", FALSE) >>)
         ELSE Step(u, "create_post", run[u], << >>)
    /\ UNCHANGED << dbVars, jobs, remoteVars, nruns, nops, deleteVars,
                    handlerVars >>

\* if settings['auto_publish_to_wp']: wp_post = await self.wp.create_post(...)
CreatePost(u) ==
    /\ pc[u] = "create_post"
    /\ IF run[u].settings.auto_publish_to_wp
       THEN \/ /\ wp_posts' = wp_posts \cup
                      { [ id             |-> next_wp_id,
                          title          |-> run[u].title,
                          category_id    |-> run[u].category_id,
                          featured_media |-> run[u].featured_media_id ] }
               /\ next_wp_id' = next_wp_id + 1
               /\ Step(u, "channel_send",
                       [run[u] EXCEPT !.wp_post_id = next_wp_id,
                                      !.wp_url = next_wp_id],
                       << Ev("create_post", TRUE) >>)
            \/ /\ UNCHANGED << wp_posts, next_wp_id >>
               /\ Raise(u, run[u], "Post creation failed",
                        << Ev("create_post", FALSE) >>)
       ELSE /\ UNCHANGED << wp_posts, next_wp_id >>
            /\ Step(u, "channel_send", run[u], << >>)
    /\ UNCHANGED << dbVars, jobs, channel, next_tg_id, nruns, nops, deleteVars,
                    handlerVars >>

\* A bug the channel phase could have: the link to the post is left out.
ChannelSend_without_link(u) ==
    /\ pc[u] = "channel_send"
    /\ IF run[u].settings.auto_publish_to_tg
       THEN \/ /\ channel' = channel \cup
                      { [ message_id |-> next_tg_id,
                          title      |-> run[u].title,
                          link       |-> None,
                          footer     |-> TRUE ] }
               /\ next_tg_id' = next_tg_id + 1
               /\ Step(u, "save_record",
                       [run[u] EXCEPT !.tg_message_id = next_tg_id],
                       << Ev("channel_send", TRUE) >>)
            \/ /\ UNCHANGED << channel, next_tg_id >>
               /\ Raise(u, run[u], "Telegram send failed",
                        << Ev("channel_send", FALSE) >>)
       ELSE /\ UNCHANGED << channel, next_tg_id >>
            /\ Step(u, "save_record", run[u], << >>)
    /\ UNCHANGED << dbVars, jobs, wp_posts, next_wp_id, nruns, nops, deleteVars,
                    handlerVars >>

\* if settings['auto_publish_to_tg']: tg_msg = await self.bot.send_message(
\* Config.CHANNEL_ID, telegram_content, ...)
ChannelSend(u) ==
    /\ pc[u] = "channel_send"
    /\ IF run[u].settings.auto_publish_to_tg
       THEN \/ /\ channel' = channel \cup
                      { [ message_id |-> next_tg_id,
                          title      |-> run[u].title,
                          link       |-> run[u].wp_url,
                          footer     |-> TRUE ] }
               /\ next_tg_id' = next_tg_id + 1
               /\ Step(u, "save_record",
                       [run[u] EXCEPT !.tg_message_id = next_tg_id],
                       << Ev("channel_send", TRUE) >>)
            \/ /\ UNCHANGED << channel, next_tg_id >>
               /\ Raise(u, run[u], "Telegram send failed",
                        << Ev("channel_send", FALSE) >>)
       ELSE /\ UNCHANGED << channel, next_tg_id >>
            /\ Step(u, "save_record", run[u], << >>)
    /\ UNCHANGED << dbVars, jobs, wp_posts, next_wp_id, nruns, nops, deleteVars,
                    handlerVars >>

\* await self.db.save_published_article(...)
SaveRecord(u) ==
    /\ pc[u] = "save_record"
    /\ published_articles' = published_articles \cup
           { [ id              |-> next_article_id,
               user_id         |-> u,
               wp_post_id      |-> run[u].wp_post_id,
               tg_message_id   |-> run[u].tg_message_id,
               title           |-> run[u].title,
               url             |-> run[u].wp_url,
               category_id     |-> run[u].category_id,
               published_to_wp |-> run[u].settings.auto_publish_to_wp,
               published_to_tg |-> run[u].settings.auto_publish_to_tg ] }
    /\ next_article_id' = next_article_id + 1
    /\ Step(u, "add_fingerprint", run[u], << Ev("save_published_article", TRUE) >>)
    /\ UNCHANGED << user_settings, article_fingerprints, logs, jobs,
                    remoteVars, nruns, nops, deleteVars, handlerVars >>

\* await self.db.add_article_fingerprint(article['title'])
AddFingerprint(u) ==
    /\ pc[u] = "add_fingerprint"
    /\ article_fingerprints' =
           add_article_fingerprint(article_fingerprints, run[u].title)
    /\ Step(u, "update_last_publish", run[u],
            << Ev("add_article_fingerprint", TRUE) >>)
    /\ UNCHANGED << user_settings, published_articles, next_article_id, logs,
                    jobs, remoteVars, nruns, nops, deleteVars,
                    handlerVars >>

\* await self.db.update_last_publish_time(user_id)
UpdateLastPublishTime(u) ==
    /\ pc[u] = "update_last_publish"
    /\ user_settings' = update_last_publish_time(user_settings, u)
    /\ Step(u, "notify_success", run[u],
            << Ev("update_last_publish_time", TRUE) >>)
    /\ UNCHANGED << published_articles, next_article_id, article_fingerprints,
                    logs, jobs, remoteVars, nruns, nops, deleteVars,
                    handlerVars >>

\* await self.bot.send_message(user_id, result_text, parse_mode="Markdown")
NotifySuccess(u) ==
    /\ pc[u] = "notify_success"
    /\ \/ Step(u, "log_success", run[u], << Ev("send_message:success", TRUE) >>)
       \/ Raise(u, run[u], "send_message failed",
                << Ev("send_message:success", FALSE) >>)
    /\ UNCHANGED << dbVars, jobs, remoteVars, nruns, nops, deleteVars,
                    handlerVars >>

\* await self.db.log_action(user_id, 'auto_publish', 'success', ...)
LogSuccess(u) ==
    /\ pc[u] = "log_success"
    /\ logs' = log_action(logs, u, "auto_publish", "success", "Auto-published")
    /\ Return(u, run[u], "success", << Ev("log_action", TRUE) >>)
    /\ UNCHANGED << user_settings, published_articles, next_article_id,
                    article_fingerprints, jobs, remoteVars, nruns, nops, deleteVars,
                    handlerVars >>

\* except Exception as e: await self.db.log_action(user_id, 'auto_publish',
\* 'error', str(e), {})
LogError(u) ==
    /\ pc[u] = "log_error"
    /\ logs' = log_action(logs, u, "auto_publish", "error", run[u].error)
    /\ Step(u, "notify_error", run[u], << Ev("log_action", TRUE) >>)
    /\ UNCHANGED << user_settings, published_articles, next_article_id,
                    article_fingerprints, jobs, remoteVars, nruns, nops, deleteVars,
                    handlerVars >>

\* A bug the except clause could have: a failed run takes the operator's
\* job off the schedule.
NotifyError_cancels_schedule(u) ==
    /\ pc[u] = "notify_error"
    /\ \E ok \in BOOLEAN :
         Return(u, run[u], "error", << Ev("send_message:error", ok) >>)
    /\ jobs' = stop_user_schedule(jobs, u)
    /\ UNCHANGED << dbVars, remoteVars, nruns, nops, deleteVars,
                    handlerVars >>

\* await self.bot.send_message(user_id, f"Помилка автопублікації: {str(e)}");
\* a send that raises here leaves the task with the exception.
NotifyError(u) ==
    /\ pc[u] = "notify_error"
    /\ \E ok \in BOOLEAN :
         Return(u, run[u], "error", << Ev("send_message:error", ok) >>)
    /\ UNCHANGED << dbVars, jobs, remoteVars, nruns, nops, deleteVars,
                    handlerVars >>

\* One step of the run of operator u.
RunStep(u) ==
    \/ GetSettings(u)
    \/ SearchSeed(u)
    \/ NotifyNoNews(u)
    \/ SearchSources(u)
    \/ Generate(u)
    \/ ResolveCategory(u)
    \/ NotifySkipped(u)
    \/ CheckDuplicate(u)
    \/ NotifyDuplicate(u)
    \/ UploadImage(u)
    \/ CreatePost(u)
    \/ ChannelSend(u)
    \/ SaveRecord(u)
    \/ AddFingerprint(u)
    \/ UpdateLastPublishTime(u)
    \/ NotifySuccess(u)
    \/ LogSuccess(u)
    \/ LogError(u)
    \/ NotifyError(u)

\* A settings callback of operator u.
SettingsStep(u) ==
    \/ ToggleAutoHandler(u)
    \/ \E interval \in Intervals : SetIntervalHandler(u, interval)
    \/ ToggleWpHandler(u)
    \/ ToggleTgHandler(u)
    \/ \E cats \in CategorySets : UpdateEnabledCategories(u, cats)

\* --------------------------------------------- drafts, article deletion

\* save_draft_handler: INSERT INTO drafts ... RETURNING id
SaveDraftHandler(u) ==
    /\ next_draft_id <= MaxDrafts
    /\ drafts' = drafts \cup { [id |-> next_draft_id, user_id |-> u] }
    /\ next_draft_id' = next_draft_id + 1
    /\ UNCHANGED << dbVars, jobs, remoteVars, pc, run, trace, nruns, nops,
                    deletion, ndeletes, handlerVars >>

\* delete_draft_handler: DELETE FROM drafts WHERE id = $1
DeleteDraftHandler(u, draft_id) ==
    /\ \E d \in drafts : d.id = draft_id
    /\ drafts' = { d \in drafts : d.id # draft_id }
    /\ UNCHANGED << dbVars, jobs, remoteVars, pc, run, trace, nruns, nops,
                    next_draft_id, deletion, ndeletes, handlerVars >>

\* What get_published_article returns for an id that has no row.
NoArticle ==
    [ id              |-> None,
      user_id         |-> None,
      wp_post_id      |-> None,
      tg_message_id   |-> None,
      title           |-> << >>,
      url             |-> None,
      category_id     |-> None,
      published_to_wp |-> FALSE,
      published_to_tg |-> FALSE ]

\* Database.get_published_article
get_published_article(tbl, article_id) ==
    IF \E row \in tbl : row.id = article_id
    THEN CHOOSE row \in tbl : row.id = article_id
    ELSE NoArticle

\* Database.delete_published_article
delete_published_article(tbl, article_id) ==
    { row \in tbl : row.id # article_id }

\* The locals of confirm_delete_article_handler before its first statement.
InitDeletion ==
    [ pc        |-> "idle",
      article   |-> NoArticle,
      results   |-> << >>,
      errors    |-> << >>,
      wp_called |-> FALSE,      \* wp_service.delete_post was called
      tg_called |-> FALSE,      \* bot.delete_message was called
      outcome   |-> "none" ]

\* The handler call of operator u moves on with locals d.
DeletionStep(u, d) == deletion' = [deletion EXCEPT ![u] = d]

\* A bug the reference test could have: the site phase runs for every record.
HasSiteReference_always(article) == TRUE

\* if article['published_to_wp'] and article.get('wp_post_id'):
HasSiteReference(article) ==
    article.published_to_wp /\ article.wp_post_id # None

\* if article['published_to_tg'] and article.get('tg_message_id'):
HasChannelReference(article) ==
    article.published_to_tg /\ article.tg_message_id # None

\* confirm_delete_article_handler up to the try block: the record is read,
\* a missing one is answered "not found", and the progress message is shown
\* (an exception of that edit_text ends the handler).
ConfirmDeleteArticle(u, article_id) ==
    /\ deletion[u].pc \in {"idle", "done"}
    /\ ndeletes < MaxDeletes
    /\ ndeletes' = ndeletes + 1
    /\ LET article == get_published_article(published_articles, article_id)
           d       == [InitDeletion EXCEPT !.article = article]
       IN  IF article = NoArticle
           THEN DeletionStep(u, [d EXCEPT !.pc = "done",
                                          !.outcome = "not_found"])
           ELSE \/ DeletionStep(u, [d EXCEPT !.pc = "delete_wp"])
                \/ DeletionStep(u, [d EXCEPT !.pc = "done",
                                             !.outcome = "aborted"])
    /\ UNCHANGED << dbVars, jobs, remoteVars, pc, run, trace, nruns, nops,
                    drafts, next_draft_id, handlerVars >>

\* A bug the site phase could have: a False from delete_post is raised as an
\* exception that reaches the outer except clause.
DeleteFromSite_failure_aborts(u) ==
    /\ deletion[u].pc = "delete_wp"
    /\ LET d == deletion[u]
       IN  IF HasSiteReference(d.article)
           THEN \/ /\ \E post \in wp_posts : post.id = d.article.wp_post_id
                   /\ wp_posts' =
                          { post \in wp_posts : post.id # d.article.wp_post_id }
                   /\ DeletionStep(u, [d EXCEPT !.pc = "delete_tg",
                                                !.wp_called = TRUE,
                                                !.results = Append(@, "WordPress")])
                \/ /\ UNCHANGED wp_posts
                   /\ DeletionStep(u, [d EXCEPT !.pc = "failed",
                                                !.wp_called = TRUE,
                                                !.errors = Append(@, "WordPress")])
           ELSE /\ UNCHANGED wp_posts
                /\ DeletionStep(u, [d EXCEPT !.pc = "delete_tg"])
    /\ UNCHANGED << dbVars, jobs, next_wp_id, channel, next_tg_id, pc, run,
                    trace, nruns, nops, drafts, next_draft_id, ndeletes,
                    handlerVars >>

\* The site phase: progress message, then WordPressService.delete_post, which
\* answers True on status 200 and False on any other status or exception.
DeleteFromSite(u) ==
    /\ deletion[u].pc = "delete_wp"
    /\ LET d == deletion[u]
       IN  IF HasSiteReference(d.article)
           THEN \/ /\ \E post \in wp_posts : post.id = d.article.wp_post_id
                   /\ wp_posts' =
                          { post \in wp_posts : post.id # d.article.wp_post_id }
                   /\ DeletionStep(u, [d EXCEPT !.pc = "delete_tg",
                                                !.wp_called = TRUE,
                                                !.results = Append(@, "WordPress")])
                \/ /\ UNCHANGED wp_posts
                   /\ DeletionStep(u, [d EXCEPT !.pc = "delete_tg",
                                                !.wp_called = TRUE,
                                                !.errors = Append(@, "WordPress")])
                \/ /\ UNCHANGED wp_posts
                   /\ DeletionStep(u, [d EXCEPT !.pc = "failed"])
           ELSE /\ UNCHANGED wp_posts
                /\ DeletionStep(u, [d EXCEPT !.pc = "delete_tg"])
    /\ UNCHANGED << dbVars, jobs, next_wp_id, channel, next_tg_id, pc, run,
                    trace, nruns, nops, drafts, next_draft_id, ndeletes,
                    handlerVars >>

\* The channel phase: progress message, then bot.delete_message, which raises
\* when the message is gone or the API fails.
DeleteFromChannel(u) ==
    /\ deletion[u].pc = "delete_tg"
    /\ LET d == deletion[u]
       IN  IF HasChannelReference(d.article)
           THEN \/ /\ \E m \in channel : m.message_id = d.article.tg_message_id
                   /\ channel' =
                          { m \in channel : m.message_id # d.article.tg_message_id }
                   /\ DeletionStep(u, [d EXCEPT !.pc = "delete_db",
                                                !.tg_called = TRUE,
                                                !.results = Append(@, "Telegram")])
                \/ /\ UNCHANGED channel
                   /\ DeletionStep(u, [d EXCEPT !.pc = "delete_db",
                                                !.tg_called = TRUE,
                                                !.errors = Append(@, "Telegram")])
                \/ /\ UNCHANGED channel
                   /\ DeletionStep(u, [d EXCEPT !.pc = "failed"])
           ELSE /\ UNCHANGED channel
                /\ DeletionStep(u, [d EXCEPT !.pc = "delete_db"])
    /\ UNCHANGED << dbVars, jobs, wp_posts, next_wp_id, next_tg_id, pc, run,
                    trace, nruns, nops, drafts, next_draft_id, ndeletes,
                    handlerVars >>

\* A bug the database phase could have: the fingerprint of the deleted
\* article's title is removed with the record.
DeleteFromDatabase_forgets_fingerprint(u) ==
    /\ deletion[u].pc = "delete_db"
    /\ LET d == deletion[u]
       IN  /\ published_articles' =
                  delete_published_article(published_articles, d.article.id)
           /\ article_fingerprints' =
                  { row \in article_fingerprints :
                        row.title_hash # TitleHash(d.article.title) }
           /\ DeletionStep(u, [d EXCEPT !.pc = "report",
                                        !.results = Append(@, "Database")])
    /\ UNCHANGED << user_settings, next_article_id, logs,
                    jobs, remoteVars, pc, run, trace, nruns, nops, drafts,
                    next_draft_id, ndeletes, handlerVars >>

\* The database phase: progress message, then db.delete_published_article.
DeleteFromDatabase(u) ==
    /\ deletion[u].pc = "delete_db"
    /\ LET d == deletion[u]
       IN  \/ /\ published_articles' =
                     delete_published_article(published_articles, d.article.id)
              /\ DeletionStep(u, [d EXCEPT !.pc = "report",
                                           !.results = Append(@, "Database")])
           \/ /\ UNCHANGED published_articles
              /\ DeletionStep(u, [d EXCEPT !.pc = "failed"])
    /\ UNCHANGED << user_settings, next_article_id, article_fingerprints, logs,
                    jobs, remoteVars, pc, run, trace, nruns, nops, drafts,
                    next_draft_id, ndeletes, handlerVars >>

\* db.log_action(..., 'delete_article', 'success' if not errors else 'error',
\* ...), then the result message (whose exception reaches the except clause).
ReportDeletion(u) ==
    /\ deletion[u].pc = "report"
    /\ LET d == deletion[u]
       IN  /\ logs' = log_action(logs, u, "delete_article",
                          IF d.errors = << >> THEN "success" ELSE "error",
                          "Deleted")
           /\ \/ DeletionStep(u, [d EXCEPT !.pc = "done", !.outcome = "deleted"])
              \/ DeletionStep(u, [d EXCEPT !.pc = "failed"])
    /\ UNCHANGED << user_settings, published_articles, next_article_id,
                    article_fingerprints, jobs, remoteVars, pc, run, trace,
                    nruns, nops, drafts, next_draft_id, ndeletes,
                    handlerVars >>

\* except Exception as e: db.log_action(..., 'delete_article', 'error',
\* str(e), {}) and the critical-error message.
DeletionFailed(u) ==
    /\ deletion[u].pc = "failed"
    /\ logs' = log_action(logs, u, "delete_article", "error", "exception")
    /\ DeletionStep(u, [deletion[u] EXCEPT !.pc = "done", !.outcome = "failed"])
    /\ UNCHANGED << user_settings, published_articles, next_article_id,
                    article_fingerprints, jobs, remoteVars, pc, run, trace,
                    nruns, nops, drafts, next_draft_id, ndeletes,
                    handlerVars >>

\* The steps of operator u's article deletion.
DeleteStep(u) ==
    \/ \E article_id \in { row.id : row \in published_articles }
                            \cup { next_article_id } :
           ConfirmDeleteArticle(u, article_id)
    \/ DeleteFromSite(u)
    \/ DeleteFromChannel(u)
    \/ DeleteFromDatabase(u)
    \/ ReportDeletion(u)
    \/ DeletionFailed(u)

\* The draft callbacks of operator u.
DraftStep(u) ==
    \/ SaveDraftHandler(u)
    \/ \E d \in drafts : DeleteDraftHandler(u, d.id)

\* -------------------------------------------- settings calls, step by step

\* Handler tasks that can be inside a Database settings call at the same
\* time: the dispatcher runs each update's handler as a task of its own and
\* the scheduler runs its jobs on the same loop.
Callers == {1, 2}

\* The boolean columns a settings callback writes.
SettingKeys == {"auto_publish_enabled", "auto_publish_to_tg"}

InitCall ==
    [ pc      |-> "idle",
      op      |-> "none",
      user_id |-> None,
      key     |-> "none",
      value   |-> FALSE,
      result  |-> << >>,
      raised  |-> FALSE,
      n       |-> 0 ]

\* What a step of a Database settings call leaves alone besides the table.
callFrame == << published_articles, next_article_id, article_fingerprints,
                logs, jobs, remoteVars, pc, run, trace, nruns, nops,
                deleteVars, manual, util >>

\* The table user_settings holds one row per operator: user_id is its key,
\* so an INSERT for an operator that has a row is refused.
user_settings_unique_violation(tbl, u) == tbl[u] # << >>

\* await db.get_user_settings(user_id): a task enters the call.
CallGetUserSettings(c, u) ==
    /\ calls[c].pc \in {"idle", "done"}
    /\ calls[c].n < MaxCalls
    /\ calls' = [calls EXCEPT ![c] =
           [InitCall EXCEPT !.pc = "select", !.op = "get", !.user_id = u,
                            !.n = calls[c].n + 1]]
    /\ UNCHANGED << user_settings, callFrame >>

\* A bug update_user_setting could have: no "Ensure settings exist" step.
CallUpdateUserSetting_no_ensure(c, u, key, value) ==
    /\ calls[c].pc \in {"idle", "done"}
    /\ calls[c].n < MaxCalls
    /\ calls' = [calls EXCEPT ![c] =
           [InitCall EXCEPT !.pc = "update", !.op = "update", !.user_id = u,
                            !.key = key, !.value = value,
                            !.n = calls[c].n + 1]]
    /\ UNCHANGED << user_settings, callFrame >>

\* await db.update_user_setting(user_id, key, value): a task enters the call,
\* which begins with "Ensure settings exist": await self.get_user_settings.
CallUpdateUserSetting(c, u, key, value) ==
    /\ calls[c].pc \in {"idle", "done"}
    /\ calls[c].n < MaxCalls
    /\ calls' = [calls EXCEPT ![c] =
           [InitCall EXCEPT !.pc = "select", !.op = "update", !.user_id = u,
                            !.key = key, !.value = value,
                            !.n = calls[c].n + 1]]
    /\ UNCHANGED << user_settings, callFrame >>

\* Where a call goes once get_user_settings has returned.
AfterGet(c) == IF calls[c].op = "get" THEN "done" ELSE "update"

\* row = await conn.fetchrow('SELECT * FROM user_settings WHERE user_id = $1');
\* if row: return dict(row)
SelectSettings(c) ==
    /\ calls[c].pc = "select"
    /\ LET rows == user_settings[calls[c].user_id]
       IN  calls' = [calls EXCEPT ![c] =
               IF rows # << >>
               THEN [@ EXCEPT !.pc = AfterGet(c), !.result = << rows[1] >>]
               ELSE [@ EXCEPT !.pc = "insert"]]
    /\ UNCHANGED << user_settings, callFrame >>

\* else: await conn.execute('INSERT INTO user_settings (...) VALUES ($1,
\* FALSE, 180, TRUE, FALSE, '[]')'); return {the defaults}.  A refused INSERT
\* raises out of get_user_settings and out of update_user_setting.
InsertSettings(c) ==
    /\ calls[c].pc = "insert"
    /\ LET u == calls[c].user_id
       IN  IF user_settings_unique_violation(user_settings, u)
           THEN /\ calls' = [calls EXCEPT ![c] =
                       [@ EXCEPT !.pc = "done", !.raised = TRUE]]
                /\ UNCHANGED user_settings
           ELSE /\ user_settings' = [user_settings EXCEPT ![u] =
                       Append(@, DefaultSettings(u))]
                /\ calls' = [calls EXCEPT ![c] =
                       [@ EXCEPT !.pc = AfterGet(c),
                                 !.result = << DefaultSettings(u) >>]]
    /\ UNCHANGED callFrame

\* await conn.execute(f'UPDATE user_settings SET {key} = $1 WHERE user_id = $2')
UpdateSettings(c) ==
    /\ calls[c].pc = "update"
    /\ LET u == calls[c].user_id
       IN  user_settings' = [user_settings EXCEPT ![u] =
               [i \in DOMAIN @ |->
                   [@[i] EXCEPT ![calls[c].key] = calls[c].value]]]
    /\ calls' = [calls EXCEPT ![c] = [@ EXCEPT !.pc = "done"]]
    /\ UNCHANGED callFrame

\* The steps of the settings call of task c.
CallStep(c) ==
    \/ \E u \in Users : CallGetUserSettings(c, u)
    \/ \E u \in Users, key \in SettingKeys, value \in BOOLEAN :
           CallUpdateUserSetting(c, u, key, value)
    \/ SelectSettings(c)
    \/ InsertSettings(c)
    \/ UpdateSettings(c)

\* ------------------------------------------- the manual publish handlers

\* publish_handler ("publish_wp|tg|both") and process_manual_publish
\* ("publish_manual_wp|tg|both") are the same code up to the state key the
\* article is read from and the action name that is logged.
ManualHandlers == {"publish", "publish_manual"}

PublishTypes == {"wp", "tg", "both"}

\* Titles of the article kept in the operator's FSM state.
ManualTitles == { <<"K", "y">> }

InitManual ==
    [ pc                |-> "idle",
      handler           |-> "none",
      publish_type      |-> "none",
      title             |-> << >>,
      image             |-> FALSE,
      featured_media_id |-> None,
      wp_post_id        |-> None,
      wp_url            |-> None,
      tg_message_id     |-> None,
      error             |-> "none",
      outcome           |-> "none",
      trace             |-> << >>,
      n                 |-> 0 ]

\* Manual publish callbacks handled so far.
ManualCount == manual[1].n + manual[2].n

\* The handler of operator u goes on to `next` with locals r after calls evs.
ManualStep(u, next, r, evs) ==
    manual' = [manual EXCEPT ![u] =
        [r EXCEPT !.pc = next, !.trace = manual[u].trace \o evs]]

\* An exception inside the try block: control moves to the except clause.
ManualRaise(u, r, err, evs) ==
    ManualStep(u, "log_error", [r EXCEPT !.error = err], evs)

\* The handler returns.
ManualReturn(u, r, outcome, evs) ==
    ManualStep(u, "done", [r EXCEPT !.outcome = outcome], evs)

SiteRequested(u) == manual[u].publish_type \in {"wp", "both"}

ChannelRequested(u) == manual[u].publish_type \in {"tg", "both"}

\* The callback arrives: publish_type = callback.data.split("_")[..]; the
\* article is read from the FSM state (publish_handler answers "Статтю не
\* знайдено" and returns when there is none); progress_msg = await
\* callback.message.edit_text("Публікую..."), which is outside the try block.
StartPublish(u, handler, publish_type, title, image, has_article) ==
    /\ manual[u].pc \in {"idle", "done"}
    /\ LET r == [InitManual EXCEPT !.handler = handler,
                                   !.publish_type = publish_type,
                                   !.title = title,
                                   !.image = image,
                                   !.n = manual[u].n + 1]
       IN  IF handler = "publish" /\ ~has_article
           THEN manual' = [manual EXCEPT ![u] =
                    [r EXCEPT !.pc = "done", !.outcome = "no_article"]]
           ELSE \/ manual' = [manual EXCEPT ![u] =
                       [r EXCEPT !.pc = "upload_image",
                                 !.trace = << Ev("edit_text", TRUE) >>]]
                \/ manual' = [manual EXCEPT ![u] =
                       [r EXCEPT !.pc = "done", !.outcome = "aborted",
                                 !.trace = << Ev("edit_text", FALSE) >>]]
    /\ UNCHANGED << dbVars, jobs, remoteVars, pc, run, trace, nruns, nops,
                    deleteVars, calls, util >>

\* A manual publish callback, counted against the bound on publications.
PublishHandler(u, handler, publish_type, title, image, has_article) ==
    /\ ManualCount < MaxManual
    /\ StartPublish(u, handler, publish_type, title, image, has_article)

\* if publish_type in ['wp', 'both']: edit_text("Завантажую зображення...");
\* if the article has an image: try upload_image except: logger.warning
ManualUploadImage(u) ==
    /\ manual[u].pc = "upload_image"
    /\ IF SiteRequested(u)
       THEN \/ ManualRaise(u, manual[u], "edit_text failed",
                           << Ev("edit_text", FALSE) >>)
            \/ IF manual[u].image
               THEN \/ ManualStep(u, "create_post",
                           [manual[u] EXCEPT !.featured_media_id = 1],
                           << Ev("edit_text", TRUE), Ev("upload_image", TRUE) >>)
                    \/ ManualStep(u, "create_post", manual[u],
                           << Ev("edit_text", TRUE), Ev("upload_image", FALSE) >>)
               ELSE ManualStep(u, "create_post", manual[u],
                               << Ev("edit_text", TRUE) >>)
       ELSE ManualStep(u, "channel_send", manual[u], << >>)
    /\ UNCHANGED << dbVars, jobs, remoteVars, pc, run, trace, nruns, nops,
                    deleteVars, calls, util >>

\* edit_text("Створюю пост на WordPress..."); wp_post = await
\* wp_service.create_post(article, featured_media_id)
ManualCreatePost(u) ==
    /\ manual[u].pc = "create_post"
    /\ \/ /\ UNCHANGED << wp_posts, next_wp_id >>
          /\ ManualRaise(u, manual[u], "edit_text failed",
                         << Ev("edit_text", FALSE) >>)
       \/ /\ wp_posts' = wp_posts \cup
                 { [ id             |-> next_wp_id,
                     title          |-> manual[u].title,
                     category_id    |-> 1,
                     featured_media |-> manual[u].featured_media_id ] }
          /\ next_wp_id' = next_wp_id + 1
          /\ ManualStep(u, "channel_send",
                 [manual[u] EXCEPT !.wp_post_id = next_wp_id,
                                   !.wp_url = next_wp_id],
                 << Ev("edit_text", TRUE), Ev("create_post", TRUE) >>)
       \/ /\ UNCHANGED << wp_posts, next_wp_id >>
          /\ ManualRaise(u, manual[u], "Post creation failed",
                 << Ev("edit_text", TRUE), Ev("create_post", FALSE) >>)
    /\ UNCHANGED << dbVars, jobs, channel, next_tg_id, pc, run, trace, nruns,
                    nops, deleteVars, calls, util >>

\* if publish_type in ['tg', 'both']: edit_text("Публікую в Telegram...");
\* the link is appended if wp_url, the footer always; one send_message to
\* Config.CHANNEL_ID.
ManualChannelSend(u) ==
    /\ manual[u].pc = "channel_send"
    /\ IF ChannelRequested(u)
       THEN \/ /\ UNCHANGED << channel, next_tg_id >>
               /\ ManualRaise(u, manual[u], "edit_text failed",
                              << Ev("edit_text", FALSE) >>)
            \/ /\ channel' = channel \cup
                      { [ message_id |-> next_tg_id,
                          title      |-> manual[u].title,
                          link       |-> manual[u].wp_url,
                          footer     |-> TRUE ] }
               /\ next_tg_id' = next_tg_id + 1
               /\ ManualStep(u, "save_record",
                      [manual[u] EXCEPT !.tg_message_id = next_tg_id],
                      << Ev("edit_text", TRUE), Ev("channel_send", TRUE) >>)
            \/ /\ UNCHANGED << channel, next_tg_id >>
               /\ ManualRaise(u, manual[u], "Telegram send failed",
                      << Ev("edit_text", TRUE), Ev("channel_send", FALSE) >>)
       ELSE /\ UNCHANGED << channel, next_tg_id >>
            /\ ManualStep(u, "save_record", manual[u], << >>)
    /\ UNCHANGED << dbVars, jobs, wp_posts, next_wp_id, pc, run, trace, nruns,
                    nops, deleteVars, calls, util >>

\* A bug the manual handlers could have: the record is flagged for both
\* destinations whatever was requested.
ManualSaveRecord_flags_both(u) ==
    /\ manual[u].pc = "save_record"
    /\ \/ /\ UNCHANGED << published_articles, next_article_id >>
          /\ ManualRaise(u, manual[u], "edit_text failed",
                         << Ev("edit_text", FALSE) >>)
       \/ /\ published_articles' = published_articles \cup
                 { [ id              |-> next_article_id,
                     user_id         |-> u,
                     wp_post_id      |-> manual[u].wp_post_id,
                     tg_message_id   |-> manual[u].tg_message_id,
                     title           |-> manual[u].title,
                     url             |-> manual[u].wp_url,
                     category_id     |-> 1,
                     published_to_wp |-> TRUE,
                     published_to_tg |-> TRUE ] }
          /\ next_article_id' = next_article_id + 1
          /\ ManualStep(u, "add_fingerprint", manual[u],
                 << Ev("edit_text", TRUE), Ev("save_published_article", TRUE) >>)
    /\ UNCHANGED << user_settings, article_fingerprints, logs, jobs,
                    remoteVars, pc, run, trace, nruns, nops, deleteVars,
                    calls, util >>

\* edit_text("Зберігаю в БД..."); await db.save_published_article(...)
ManualSaveRecord(u) ==
    /\ manual[u].pc = "save_record"
    /\ \/ /\ UNCHANGED << published_articles, next_article_id >>
          /\ ManualRaise(u, manual[u], "edit_text failed",
                         << Ev("edit_text", FALSE) >>)
       \/ /\ published_articles' = published_articles \cup
                 { [ id              |-> next_article_id,
                     user_id         |-> u,
                     wp_post_id      |-> manual[u].wp_post_id,
                     tg_message_id   |-> manual[u].tg_message_id,
                     title           |-> manual[u].title,
                     url             |-> manual[u].wp_url,
                     category_id     |-> 1,
                     published_to_wp |-> SiteRequested(u),
                     published_to_tg |-> ChannelRequested(u) ] }
          /\ next_article_id' = next_article_id + 1
          /\ ManualStep(u, "add_fingerprint", manual[u],
                 << Ev("edit_text", TRUE), Ev("save_published_article", TRUE) >>)
    /\ UNCHANGED << user_settings, article_fingerprints, logs, jobs,
                    remoteVars, pc, run, trace, nruns, nops, deleteVars,
                    calls, util >>

\* await db.add_article_fingerprint(article['title'])
ManualAddFingerprint(u) ==
    /\ manual[u].pc = "add_fingerprint"
    /\ article_fingerprints' =
           add_article_fingerprint(article_fingerprints, manual[u].title)
    /\ ManualStep(u, "log_success", manual[u],
                  << Ev("add_article_fingerprint", TRUE) >>)
    /\ UNCHANGED << user_settings, published_articles, next_article_id, logs,
                    jobs, remoteVars, pc, run, trace, nruns, nops, deleteVars,
                    calls, util >>

\* await db.log_action(user_id, 'publish' | 'publish_manual', 'success', ...)
ManualLogSuccess(u) ==
    /\ manual[u].pc = "log_success"
    /\ logs' = log_action(logs, u, manual[u].handler, "success", "Published")
    /\ ManualStep(u, "result", manual[u], << Ev("log_action", TRUE) >>)
    /\ UNCHANGED << user_settings, published_articles, next_article_id,
                    article_fingerprints, jobs, remoteVars, pc, run, trace,
                    nruns, nops, deleteVars, calls, util >>

\* await progress_msg.edit_text(result_text, ...); await state.clear()
ManualResult(u) ==
    /\ manual[u].pc = "result"
    /\ \/ ManualReturn(u, manual[u], "success", << Ev("edit_text", TRUE) >>)
       \/ ManualRaise(u, manual[u], "edit_text failed",
                      << Ev("edit_text", FALSE) >>)
    /\ UNCHANGED << dbVars, jobs, remoteVars, pc, run, trace, nruns, nops,
                    deleteVars, calls, util >>

\* except Exception as e: await db.log_action(user_id, ..., 'error', str(e), {})
ManualLogError(u) ==
    /\ manual[u].pc = "log_error"
    /\ logs' = log_action(logs, u, manual[u].handler, "error", manual[u].error)
    /\ ManualStep(u, "notify_error", manual[u], << Ev("log_action", TRUE) >>)
    /\ UNCHANGED << user_settings, published_articles, next_article_id,
                    article_fingerprints, jobs, remoteVars, pc, run, trace,
                    nruns, nops, deleteVars, calls, util >>

\* await progress_msg.edit_text("Помилка публікації: ...")
ManualNotifyError(u) ==
    /\ manual[u].pc = "notify_error"
    /\ \/ ManualReturn(u, manual[u], "error", << Ev("edit_text:error", TRUE) >>)
       \/ ManualReturn(u, manual[u], "error", << Ev("edit_text:error", FALSE) >>)
    /\ UNCHANGED << dbVars, jobs, remoteVars, pc, run, trace, nruns, nops,
                    deleteVars, calls, util >>

\* A manual publish callback of operator u arrives.
ManualPublishCallback(u) ==
    \E handler \in ManualHandlers, publish_type \in PublishTypes,
       title \in ManualTitles, image \in BOOLEAN, has_article \in BOOLEAN :
        PublishHandler(u, handler, publish_type, title, image, has_article)

\* The steps of the manual publish handler of operator u.
ManualPublishStep(u) ==
    \/ ManualUploadImage(u)
    \/ ManualCreatePost(u)
    \/ ManualChannelSend(u)
    \/ ManualSaveRecord(u)
    \/ ManualAddFingerprint(u)
    \/ ManualLogSuccess(u)
    \/ ManualResult(u)
    \/ ManualLogError(u)
    \/ ManualNotifyError(u)

\* ------------------------------------------------------- text utilities

\* What every step of the bot leaves alone when a text utility is called.
utilFrame == << dbVars, jobs, remoteVars, pc, run, trace, nruns, nops,
               deleteVars, manual, calls >>

InitUtil == [fn |-> "none", text |-> << >>, n |-> 0, result |-> << >>]

\* Leading and trailing spaces removed (str.strip()).
RECURSIVE Strip(_)
Strip(title) ==
    IF title = << >> THEN title
    ELSE IF Head(title) = " " THEN Strip(Tail(title))
    ELSE IF title[Len(title)] = " " THEN Strip(SubSeq(title, 1, Len(title) - 1))
    ELSE title

\* The characters of the titles tried: two letters, a character of the
\* stripped class (the comma) and the space.
TitleChars == {"a", "b", ",", " "}

\* [,"':;!?()[]{}<>/\|@#$%^&*=+~] as far as the titles tried have them.
StrippedChars == {","}

\* The titles tried: every text of up to MaxTitleLen characters.
KeywordTitles == UNION { [1..n -> TitleChars] : n \in 0..MaxTitleLen }

\* return "Україна" (its seven letters, transliterated)
DefaultTopic == << "U", "k", "r", "a", "i", "n", "a" >>

\* cleaned = re.sub(r'[...]', ' ', title)
Cleaned(title) ==
    [i \in DOMAIN title |-> IF title[i] \in StrippedChars THEN " " ELSE title[i]]

\* str.split(): the maximal runs of non-space characters, in order.
RECURSIVE SplitWords(_, _)
SplitWords(text, word) ==
    IF text = << >>
    THEN IF word = << >> THEN << >> ELSE << word >>
    ELSE IF Head(text) = " "
         THEN IF word = << >> THEN SplitWords(Tail(text), << >>)
              ELSE << word >> \o SplitWords(Tail(text), << >>)
         ELSE SplitWords(Tail(text), Append(word, Head(text)))

Split(text) == SplitWords(text, << >>)

\* A bug the filter could have: two-letter words are kept.
IsSignificantWord_two_chars(w) == Len(w) >= 2

\* [w for w in cleaned.split() if len(w) > 2]
IsSignificantWord(w) == Len(w) > 2

\* ' '.join(words)
RECURSIVE Join(_)
Join(words) ==
    IF words = << >> THEN << >>
    ELSE IF Len(words) = 1 THEN words[1]
    ELSE words[1] \o << " " >> \o Join(Tail(words))

\* words[:max_words] for max_words >= 0
FirstWords(words, max_words) ==
    SubSeq(words, 1, IF max_words < Len(words) THEN max_words ELSE Len(words))

\* extract_keywords_from_title(title, max_words)
extract_keywords_from_title(title, max_words) ==
    IF title = << >> THEN DefaultTopic
    ELSE LET words    == SelectSeq(Split(Cleaned(title)), IsSignificantWord)
             keywords == Join(FirstWords(words, max_words))
         IN  IF keywords = << >> \/ Len(Strip(keywords)) < 3
             THEN DefaultTopic
             ELSE Strip(keywords)

\* query_words = extract_keywords_from_title(title, max_words=...), on the
\* title the state holds.
ExtractKeywords(max_words) ==
    /\ util.fn = "none"
    /\ util' = [ fn     |-> "extract_keywords_from_title",
                 text   |-> util.text,
                 n      |-> max_words,
                 result |-> extract_keywords_from_title(util.text, max_words) ]
    /\ UNCHANGED utilFrame

\* html_to_telegram works on a text; here the text is a sequence of tokens,
\* each a character of plain text or a whole tag <name ...> or </name>, so
\* the regular expressions of the function become tests on tokens.
Text(c) == [kind |-> "text", name |-> << c >>, attrs |-> FALSE]

OpenTag(name, attrs) == [kind |-> "open", name |-> name, attrs |-> attrs]

CloseTag(name) == [kind |-> "close", name |-> name, attrs |-> FALSE]

NL == Text("\n")

IsTag(t) == t.kind # "text"

\* The tag's name begins with p.
HasPrefix(name, p) == Len(name) >= Len(p) /\ SubSeq(name, 1, Len(p)) = p

\* The opening side of the five patterns of the form <x ...>(.*?)</x>:
\* <h[1-6][^>]*>, <strong>, <em>, <li[^>]*>, <p[^>]*>.  [^>]* also takes the
\* rest of a longer tag name.
IsOpen(step, t) ==
    /\ t.kind = "open"
    /\ CASE step = "heading" ->
                \E d \in {"1", "2", "3", "4", "5", "6"} :
                    HasPrefix(t.name, << "h", d >>)
         [] step = "strong"  -> t.name = << "s", "t", "r", "o", "n", "g" >> /\ ~t.attrs
         [] step = "em"      -> t.name = << "e", "m" >> /\ ~t.attrs
         [] step = "li"      -> HasPrefix(t.name, << "l", "i" >>)
         [] step = "p"       -> HasPrefix(t.name, << "p" >>)

\* The closing side: </h[1-6]>, </strong>, </em>, </li>, </p>.
IsClose(step, t) ==
    /\ t.kind = "close"
    /\ CASE step = "heading" ->
                \E d \in {"1", "2", "3", "4", "5", "6"} : t.name = << "h", d >>
         [] step = "strong"  -> t.name = << "s", "t", "r", "o", "n", "g" >>
         [] step = "em"      -> t.name = << "e", "m" >>
         [] step = "li"      -> t.name = << "l", "i" >>
         [] step = "p"       -> t.name = << "p" >>

\* What the replacement puts before \1: '\n\n<b>', '<b>', '<i>', '\n• '
\* (the bullet is written "*"), ''.
Before(step) ==
    CASE step = "heading" -> << NL, NL, OpenTag(<< "b" >>, FALSE) >>
      [] step = "strong"  -> << OpenTag(<< "b" >>, FALSE) >>
      [] step = "em"      -> << OpenTag(<< "i" >>, FALSE) >>
      [] step = "li"      -> << NL, Text("*"), Text(" ") >>
      [] step = "p"       -> << >>

\* What the replacement puts after \1: '</b>\n\n', '</b>', '</i>', '', '\n\n'.
After(step) ==
    CASE step = "heading" -> << CloseTag(<< "b" >>), NL, NL >>
      [] step = "strong"  -> << CloseTag(<< "b" >>) >>
      [] step = "em"      -> << CloseTag(<< "i" >>) >>
      [] step = "li"      -> << >>
      [] step = "p"       -> << NL, NL >>

\* re.sub(r'<x...>(.*?)</x>', before \1 after, text, flags=re.DOTALL): the
\* leftmost opening tag that has a closing tag after it is replaced together
\* with the nearest closing tag; the search goes on behind it.
RECURSIVE ReplacePairs(_, _)
ReplacePairs(step, tokens) ==
    IF tokens = << >> THEN << >>
    ELSE LET closers == { j \in 2..Len(tokens) : IsClose(step, tokens[j]) }
         IN  IF IsOpen(step, Head(tokens)) /\ closers # {}
             THEN LET j == CHOOSE k \in closers : \A m \in closers : k <= m
                  IN  Before(step) \o SubSeq(tokens, 2, j - 1) \o After(step)
                      \o ReplacePairs(step, SubSeq(tokens, j + 1, Len(tokens)))
             ELSE << Head(tokens) >> \o ReplacePairs(step, Tail(tokens))

\* re.sub(r'</?ul[^>]*>', '', text) and the same for ol.
IsListTag(t) ==
    /\ IsTag(t)
    /\ HasPrefix(t.name, << "u", "l" >>) \/ HasPrefix(t.name, << "o", "l" >>)

\* re.sub(r'<br\s*/?>', '\n', text)
ReplaceBr(tokens) ==
    [i \in DOMAIN tokens |->
        IF tokens[i] = OpenTag(<< "b", "r" >>, FALSE) THEN NL ELSE tokens[i]]

\* The names the negative lookahead (?!/?(b|i|u|s|code|pre|a)) tests for.
AllowedPrefixes ==
    { << "b" >>, << "i" >>, << "u" >>, << "s" >>, << "c", "o", "d", "e" >>,
      << "p", "r", "e" >>, << "a" >> }

\* re.sub(r'<(?!/?(b|i|u|s|code|pre|a))[^>]+>', '', text) keeps a tag when
\* the text behind '<' or '</' begins with one of the names.
KeptByLookahead(t) == \E p \in AllowedPrefixes : HasPrefix(t.name, p)

IsKeptToken(t) == ~IsTag(t) \/ KeptByLookahead(t)

IsNotListTag(t) == ~IsListTag(t)

\* The tag rewriting of html_to_telegram, in the order of the function.
ConvertTags(tokens) ==
    LET headings == ReplacePairs("heading", tokens)
        strongs  == ReplacePairs("strong", headings)
        ems      == ReplacePairs("em", strongs)
        lists    == SelectSeq(ems, IsNotListTag)
        items    == ReplacePairs("li", lists)
        paras    == ReplacePairs("p", items)
        breaks   == ReplaceBr(paras)
    IN  SelectSeq(breaks, IsKeptToken)

\* The characters of a token.
Render(t) ==
    IF t.kind = "text" THEN t.name
    ELSE << "<" >> \o (IF t.kind = "close" THEN << "/" >> ELSE << >>)
         \o t.name \o (IF t.attrs THEN << " ", "x" >> ELSE << >>) \o << ">" >>

\* The text of a token sequence.
RECURSIVE Flatten(_)
Flatten(tokens) ==
    IF tokens = << >> THEN << >>
    ELSE Render(Head(tokens)) \o Flatten(Tail(tokens))

\* re.sub(r'\n{3,}', '\n\n', text): a newline goes if two are kept already.
RECURSIVE CollapseNewlines(_, _)
CollapseNewlines(text, kept) ==
    IF text = << >> THEN << >>
    ELSE IF Head(text) = "\n"
         THEN IF kept >= 2 THEN CollapseNewlines(Tail(text), kept)
              ELSE << "\n" >> \o CollapseNewlines(Tail(text), kept + 1)
         ELSE << Head(text) >> \o CollapseNewlines(Tail(text), 0)

\* text.strip(): white space goes at both ends.
RECURSIVE StripWhitespace(_)
StripWhitespace(text) ==
    IF text = << >> THEN text
    ELSE IF Head(text) \in {" ", "\n"} THEN StripWhitespace(Tail(text))
    ELSE IF text[Len(text)] \in {" ", "\n"}
         THEN StripWhitespace(SubSeq(text, 1, Len(text) - 1))
    ELSE text

\* if len(text) > max_length: text = text[:max_length-3] + "..."
\* (for max_length >= 3)
Truncate(text, max_length) ==
    IF Len(text) > max_length
    THEN SubSeq(text, 1, max_length - 3) \o << ".", ".", "." >>
    ELSE text

\* html_to_telegram(html_content, max_length)
html_to_telegram(tokens, max_length) ==
    Truncate(StripWhitespace(CollapseNewlines(Flatten(ConvertTags(tokens)), 0)),
             max_length)

\* The tokens of the texts tried: a letter, headings, list items and lists,
\* paragraphs, line breaks, supported tags, and unsupported tags whose names
\* begin like a supported one or not.
HtmlTokens ==
    { Text("T"),
      OpenTag(<< "h", "2" >>, FALSE), CloseTag(<< "h", "2" >>),
      OpenTag(<< "l", "i" >>, FALSE), CloseTag(<< "l", "i" >>),
      OpenTag(<< "u", "l" >>, FALSE),
      OpenTag(<< "p" >>, FALSE), CloseTag(<< "p" >>),
      OpenTag(<< "b", "r" >>, FALSE),
      OpenTag(<< "b" >>, FALSE), CloseTag(<< "b" >>),
      OpenTag(<< "p", "r", "e" >>, FALSE),
      OpenTag(<< "s", "p", "a", "n" >>, FALSE),
      OpenTag(<< "s", "t", "r", "o", "n", "g" >>, TRUE),
      OpenTag(<< "d", "i", "v" >>, FALSE) }

\* '<h2>T</h2><ul><li>T</li></ul>'
HeadingAndList ==
    << OpenTag(<< "h", "2" >>, FALSE), Text("T"), CloseTag(<< "h", "2" >>),
       OpenTag(<< "u", "l" >>, FALSE), OpenTag(<< "l", "i" >>, FALSE),
       Text("T"), CloseTag(<< "l", "i" >>), CloseTag(<< "u", "l" >>) >>

\* The texts tried: every text of up to MaxHtmlLen tokens, and one longer
\* text with a heading and a list.
HtmlTexts ==
    UNION { [1..n -> HtmlTokens] : n \in 0..MaxHtmlLen } \cup { HeadingAndList }

\* The values of max_length tried: one that cuts most texts and one that
\* cuts none.
HtmlMaxLengths == {6, 60}

\* telegram_content = html_to_telegram(article['content'], max_length=...),
\* on the text the state holds.
HtmlToTelegram(max_length) ==
    /\ util.fn = "none"
    /\ util' = [ fn     |-> "html_to_telegram",
                 text   |-> util.text,
                 n      |-> max_length,
                 result |-> html_to_telegram(util.text, max_length) ]
    /\ UNCHANGED utilFrame

\* ------------------------------------------------------- specifications

\* The state after main() has built the Database, the bot and the scheduler,
\* on a fresh database.
InitBot ==
    /\ user_settings = [u \in Users |-> << >>]
    /\ published_articles = {}
    /\ next_article_id = 1
    /\ article_fingerprints = {}
    /\ logs = [u \in Users |-> << >>]
    /\ jobs = << >>
    /\ wp_posts = {}
    /\ next_wp_id = 1
    /\ channel = {}
    /\ next_tg_id = 1
    /\ pc = [u \in Users |-> "idle"]
    /\ run = [u \in Users |-> InitRun(u)]
    /\ trace = [u \in Users |-> << >>]
    /\ nruns = 0
    /\ nops = 0
    /\ drafts = {}
    /\ next_draft_id = 1
    /\ deletion = [u \in Users |-> InitDeletion]
    /\ ndeletes = 0
    /\ manual = [u \in Users |-> InitManual]
    /\ calls = [c \in Callers |-> InitCall]

\* The bot before any text utility has been called.
Init == InitBot /\ util = InitUtil

\* The bot: settings callbacks, job firings, and the steps of the runs.
Next ==
    \E u \in Users :
        \/ SettingsStep(u)
        \/ Fire(u)
        \/ RunStep(u)

Spec == Init /\ [][Next]_vars

\* The bot, with auto_publish_task also callable for any operator.
NextTask ==
    \E u \in Users :
        \/ SettingsStep(u)
        \/ Fire(u)
        \/ Invoke(u)
        \/ RunStep(u)

SpecTask == Init /\ [][NextTask]_vars

\* start_user_schedule / stop_user_schedule called in any order, for any
\* operator and interval.
StartUserSchedule(u, interval) ==
    /\ jobs' = start_user_schedule(jobs, u, interval)
    /\ UNCHANGED << dbVars, remoteVars, pc, run, trace, nruns, nops, deleteVars,
                    handlerVars >>

StopUserSchedule(u) ==
    /\ jobs' = stop_user_schedule(jobs, u)
    /\ UNCHANGED << dbVars, remoteVars, pc, run, trace, nruns, nops, deleteVars,
                    handlerVars >>

NextSched ==
    \E u \in SchedUsers :
        \/ \E interval \in AllIntervals : StartUserSchedule(u, interval)
        \/ StopUserSchedule(u)

SpecSched == Init /\ [][NextSched]_vars

\* Database.add_article_fingerprint called with any title, in any order, on
\* a fresh article_fingerprints table.
AddArticleFingerprint(title) ==
    /\ article_fingerprints' =
           add_article_fingerprint(article_fingerprints, title)
    /\ UNCHANGED << user_settings, published_articles, next_article_id, logs,
                    jobs, remoteVars, pc, run, trace, nruns, nops, deleteVars,
                    handlerVars >>

NextFingerprints ==
    \E title \in FingerprintTitles : AddArticleFingerprint(title)

SpecFingerprints == Init /\ [][NextFingerprints]_vars

\* Operators that use auto-publish in the deletion specification.
Publishers == {1}

\* The bot with the draft callbacks and the deletion of published articles:
\* one operator uses auto-publish and its job fires once; every operator may
\* issue draft and deletion callbacks at any moment.
NextDelete ==
    \/ \E u \in Publishers :
          \/ SettingsStep(u)
          \/ nruns = 0 /\ Fire(u)
          \/ RunStep(u)
    \/ \E u \in Users :
          \/ DraftStep(u)
          \/ DeleteStep(u)

SpecDelete == Init /\ [][NextDelete]_vars

\* The settings callbacks and one publication: a firing of the scheduled
\* pipeline or, in the behaviours without one, the manual publish handlers.
NextManual ==
    \/ \E u \in Publishers :
           \/ SettingsStep(u)
           \/ nruns = 0 /\ ManualCount = 0 /\ Fire(u)
           \/ RunStep(u)
    \/ \E u \in Users :
           \/ nruns = 0 /\ ManualPublishCallback(u)
           \/ ManualPublishStep(u)

SpecManual == Init /\ [][NextManual]_vars

\* extract_keywords_from_title on every title and word limit tried.
InitKeywords ==
    /\ InitBot
    /\ \E title \in KeywordTitles : util = [InitUtil EXCEPT !.text = title]

NextKeywords == \E max_words \in 0..MaxWords : ExtractKeywords(max_words)

SpecKeywords == InitKeywords /\ [][NextKeywords]_vars

\* html_to_telegram on every text and length limit tried.
InitHtml ==
    /\ InitBot
    /\ \E text \in HtmlTexts : util = [InitUtil EXCEPT !.text = text]

NextHtml == \E max_length \in HtmlMaxLengths : HtmlToTelegram(max_length)

SpecHtml == InitHtml /\ [][NextHtml]_vars

\* The Database settings calls of concurrent handler tasks.
NextSettings == \E c \in Callers : CallStep(c)

SpecSettings == Init /\ [][NextSettings]_vars

\* ------------------------------------------------- reading a run's calls

\* The run of u made the call `c`.
Called(u, c) == \E i \in DOMAIN trace[u] : trace[u][i].call = c

\* The run of u made the call `c` and it returned.
CalledOk(u, c) ==
    \E i \in DOMAIN trace[u] : trace[u][i].call = c /\ trace[u][i].ok

\* The run of u made the call `c` and it raised.
CalledFailed(u, c) ==
    \E i \in DOMAIN trace[u] : trace[u][i].call = c /\ ~trace[u][i].ok

\* How many times the run of u made the call `c`.
CallCount(u, c) == Cardinality({ i \in DOMAIN trace[u] : trace[u][i].call = c })

\* The run of u called a destination (site or channel).
DestinationCalled(u) ==
    \/ Called(u, "upload_image")
    \/ Called(u, "create_post")
    \/ Called(u, "channel_send")

\* The run of u wrote a record, a fingerprint or last_publish_time.
PersistenceWritten(u) ==
    \/ Called(u, "save_published_article")
    \/ Called(u, "add_article_fingerprint")
    \/ Called(u, "update_last_publish_time")

\* Some stored fingerprint belongs to a title equal to `title` after lower-casing.
HasFingerprint(title) ==
    \E row \in article_fingerprints : Lower(row.original_title) = Lower(title)

\* ------------------------------------------------------------------ claims

\* C1: in a run with both destinations requested, if create_post succeeded and
\* the channel send raised, the finished run has persisted a PublishRecord
\* with published_to_wp = TRUE and published_to_tg = FALSE, and the
\* fingerprint of the title is registered.
C1_PartialSuccessRecorded ==
    \A u \in Users :
        ( /\ pc[u] = "done"
          /\ CalledOk(u, "create_post")
          /\ CalledFailed(u, "channel_send") )
        => /\ \E rec \in published_articles :
                /\ rec.user_id = u
                /\ rec.wp_post_id = run[u].wp_post_id
                /\ rec.published_to_wp
                /\ ~rec.published_to_tg
           /\ HasFingerprint(run[u].title)

\* C2: with both destinations requested, a failing create_post does not keep
\* the channel send from being attempted.
C2_SiteFailureStillSendsToChannel ==
    \A u \in Users :
        ( /\ pc[u] = "done"
          /\ run[u].settings.auto_publish_to_wp
          /\ run[u].settings.auto_publish_to_tg
          /\ CalledFailed(u, "create_post") )
        => Called(u, "channel_send")

\* C3: a run writes a PublishRecord, a fingerprint or last_publish_time only
\* if at least one of its destination publish calls succeeded.
C3_PersistOnlyAfterASuccess ==
    \A u \in Users :
        PersistenceWritten(u)
        => CalledOk(u, "create_post") \/ CalledOk(u, "channel_send")

\* C4: no normalized title is delivered twice: no two site posts, and no two
\* channel messages, carry titles that are equal after lower-casing.
C4_ExactlyOncePerFingerprint ==
    /\ \A p, q \in wp_posts : Lower(p.title) = Lower(q.title) => p = q
    /\ \A m, n \in channel : Lower(m.title) = Lower(n.title) => m = n

\* The duplicate check of a run whose title has a fingerprint sends the run
\* to the duplicate notification.
C5_DuplicateStep ==
    \A u \in Users :
        ( /\ pc[u] = "check_duplicate"
          /\ HasFingerprint(run[u].title)
          /\ pc'[u] # pc[u] )
        => /\ pc'[u] = "notify_duplicate"
           /\ run'[u].dup = "yes"

\* A run that was answered "duplicate" published and persisted nothing.
C5_DuplicateSkipped ==
    \A u \in Users :
        run[u].dup = "yes"
        => /\ ~DestinationCalled(u)
           /\ ~PersistenceWritten(u)
           /\ pc[u] = "notify_duplicate" \/ Called(u, "send_message:duplicate")
           /\ HasFingerprint(run[u].title)

\* C5: a run whose rewritten title has a fingerprint when the duplicate check
\* is made is skipped: it calls no destination (image upload, create_post,
\* channel send), writes no record, fingerprint or last_publish_time, and
\* sends the operator the duplicate message.
C5_DuplicateIsSkipped == [][C5_DuplicateStep]_vars /\ []C5_DuplicateSkipped

\* C5 witness: a finished run that was skipped as a duplicate.
C5_Witness ==
    \E u \in Users :
        /\ pc[u] = "done"
        /\ run[u].outcome = "duplicate"
        /\ CalledOk(u, "send_message:duplicate")

\* C6: a run whose rewriter response lacks one of the five required fields
\* calls no destination and writes no record, fingerprint or
\* last_publish_time; it ends as an error that is logged and sent to the
\* operator.
C6_MissingFieldFails ==
    \A u \in Users :
        ( run[u].fields # {} /\ RequiredFields \ run[u].fields # {} )
        => /\ ~DestinationCalled(u)
           /\ ~PersistenceWritten(u)
           /\ pc[u] \in {"log_error", "notify_error", "done"}
           /\ pc[u] = "done"
                => /\ run[u].outcome = "error"
                   /\ Called(u, "send_message:error")
                   /\ CallCount(u, "log_action") = 1

\* C6 witness: a finished run whose response lacked a field.
C6_Witness ==
    \E u \in Users :
        /\ pc[u] = "done"
        /\ run[u].fields = RequiredFields \ {"excerpt"}
        /\ run[u].outcome = "error"

\* The GetSettings step of a run of u that finds auto-publish disabled.
DisabledStep(u) ==
    /\ pc[u] = "get_settings"
    /\ pc'[u] # pc[u]
    /\ \/ user_settings[u] = << >>
       \/ /\ user_settings[u] # << >>
          /\ ~user_settings[u][1].auto_publish_enabled

\* C7 as stated: for an operator whose auto_publish_enabled is false, also one
\* with no settings row yet, auto_publish_task makes no network call and
\* leaves settings, records, fingerprints and the audit log unchanged.
C7_DisabledRunChangesNothing ==
    [][ \A u \in Users :
            DisabledStep(u)
            => /\ pc'[u] = "done"
               /\ trace'[u] = << >>
               /\ UNCHANGED << user_settings, published_articles,
                               article_fingerprints, logs, remoteVars >> ]_vars

\* C7 as amended: for an operator whose auto_publish_enabled is false,
\* auto_publish_task makes no network call and leaves records, fingerprints,
\* the audit log, the destinations and every existing settings row unchanged;
\* for an operator with no settings row it inserts the default row (disabled,
\* 180 minutes, site only, no categories) and nothing else.
C7_DisabledRunOnlyCreatesDefaults ==
    [][ \A u \in Users :
            DisabledStep(u)
            => /\ pc'[u] = "done"
               /\ run'[u].outcome = "disabled"
               /\ trace'[u] = << >>
               /\ UNCHANGED << published_articles, article_fingerprints,
                               logs, jobs, remoteVars >>
               /\ \A v \in Users \ {u} : user_settings'[v] = user_settings[v]
               /\ IF user_settings[u] # << >>
                  THEN user_settings'[u] = user_settings[u]
                  ELSE user_settings'[u] =
                          << [ user_id               |-> u,
                               auto_publish_enabled  |-> FALSE,
                               auto_publish_interval |-> 180,
                               auto_publish_to_wp    |-> TRUE,
                               auto_publish_to_tg    |-> FALSE,
                               enabled_categories    |-> {},
                               last_publish_time     |-> 0 ] >> ]_vars

\* C7 witness: a run of an operator without a settings row has returned at
\* the enabled gate, and the row now exists.
C7_Witness ==
    \E u \in Users :
        /\ nops = 0
        /\ pc[u] = "done"
        /\ run[u].outcome = "disabled"
        /\ Len(user_settings[u]) = 1

\* C8: a finished run whose resolved category is not in the operator's
\* non-empty enabled_categories called no destination, wrote no fingerprint,
\* and wrote exactly one audit log entry, tagged "skipped".
C8_CategorySkipLogged ==
    \A u \in Users :
        ( /\ pc[u] = "done"
          /\ run[u].category # ""
          /\ run[u].settings.enabled_categories # {}
          /\ run[u].category_id \notin run[u].settings.enabled_categories )
        => /\ ~DestinationCalled(u)
           /\ ~Called(u, "add_article_fingerprint")
           /\ CallCount(u, "log_action") = 1
           /\ logs[u] # << >>
           /\ logs[u][Len(logs[u])].status = "skipped"

\* C9: every run that reached a terminal outcome (success, no results,
\* category skip, duplicate, failure) appended exactly one audit log entry.
C9_OneLogEntryPerOutcome ==
    \A u \in Users :
        ( /\ pc[u] = "done"
          /\ run[u].outcome \in {"success", "no_news", "skipped",
                                 "duplicate", "error"} )
        => CallCount(u, "log_action") = 1

\* C10: after any sequence of start_user_schedule and stop_user_schedule calls,
\* at most one job is registered per operator.
C10_AtMostOneJobPerOperator ==
    \A u \in SchedUsers : Cardinality(JobsOf(jobs, u)) <= 1

\* C10 witness: every operator has a job, and the first operator's job was
\* registered last, with another interval than the second's.
C10_Witness ==
    /\ Len(jobs) = Cardinality(SchedUsers)
    /\ jobs[Len(jobs)].args = << 1 >>
    /\ jobs[Len(jobs)].minutes # jobs[1].minutes

\* The jobs of operator u, as the set of job records.
JobRecordsOf(js, u) == { js[i] : i \in JobsOf(js, u) }

\* C11: from every job store start/stop calls can produce, whether or not a
\* job for operator u is registered (with any interval),
\* start_user_schedule(u, i) leaves exactly one job for u, with interval i,
\* invoking the pipeline with u's id; a second identical call gives the same
\* job store as the first, and the jobs of all other operators are unchanged.
C11_StartIsIdempotent ==
    \A u \in SchedUsers : \A i \in AllIntervals :
        LET once  == start_user_schedule(jobs, u, i)
            twice == start_user_schedule(once, u, i)
        IN  /\ JobRecordsOf(once, u) =
                  { [id |-> job_id(u), minutes |-> i, args |-> << u >>] }
            /\ Cardinality(JobsOf(once, u)) = 1
            /\ twice = once
            /\ \A v \in SchedUsers \ {u} :
                  JobRecordsOf(once, v) = JobRecordsOf(jobs, v)
            /\ Len(once) = Len(jobs) + (IF JobsOf(jobs, u) = {} THEN 1 ELSE 0)

\* C11 witness: operator 1 was re-registered, with 720 minutes, after
\* operator 2 was registered; its earlier job (60 minutes) is gone.
C11_Witness ==
    /\ Len(jobs) = 2
    /\ jobs[1] = [id |-> job_id(2), minutes |-> 120, args |-> << 2 >>]
    /\ jobs[2] = [id |-> job_id(1), minutes |-> 720, args |-> << 1 >>]
    /\ start_user_schedule(jobs, 1, 60) # jobs

\* C12: from every job store start/stop calls can produce,
\* stop_user_schedule(u) removes u's job when one is registered and changes
\* nothing when none is (remove_job is only called for a registered id, so
\* it cannot raise); afterwards no job for u exists and the jobs of all other
\* operators are unchanged.
C12_StopRemovesOnlyOwnJob ==
    \A u \in SchedUsers :
        LET after == stop_user_schedule(jobs, u)
        IN  /\ JobsOf(after, u) = {}
            /\ ~get_job(after, job_id(u))
            /\ ~get_job(jobs, job_id(u)) => after = jobs
            /\ \A v \in SchedUsers \ {u} :
                  JobRecordsOf(after, v) = JobRecordsOf(jobs, v)
            /\ Len(after) = Len(jobs) - (IF JobsOf(jobs, u) = {} THEN 0 ELSE 1)

\* C12 witness: operators 1 and 3 hold jobs and operator 2's job was removed
\* (stopping 2 again changes nothing, stopping 1 removes one job).
C12_Witness ==
    /\ Len(jobs) = 2
    /\ jobs[1].args = << 3 >>
    /\ jobs[2].args = << 1 >>
    /\ stop_user_schedule(jobs, 2) = jobs
    /\ Len(stop_user_schedule(jobs, 1)) = 1

\* C13: a set_interval_handler call of an operator stores the interval; if
\* auto_publish_enabled is true the operator's job is re-registered, so that
\* afterwards the operator has exactly one job and its interval is the stored
\* auto_publish_interval; if it is false the job store is left as it was and
\* holds no job for the operator.
C13_IntervalChangeReRegisters ==
    [][ \A u \in Users : \A i \in Intervals :
            SetIntervalHandler(u, i)
            => LET before == get_user_settings(user_settings, u)
                   after  == get_user_settings(user_settings', u)
               IN  /\ user_settings'[u] # << >>
                   /\ after.auto_publish_interval = i
                   /\ after.auto_publish_enabled = before.auto_publish_enabled
                   /\ IF before.auto_publish_enabled
                      THEN JobRecordsOf(jobs', u) =
                              { [id |-> job_id(u),
                                 minutes |-> after.auto_publish_interval,
                                 args |-> << u >>] }
                      ELSE /\ jobs' = jobs
                           /\ JobsOf(jobs', u) = {}
                   /\ \A v \in Users \ {u} :
                          JobRecordsOf(jobs', v) = JobRecordsOf(jobs, v) ]_vars

\* C13 witness: a run of the operator read its settings while enabled with
\* 180 minutes; since then the interval was changed to 60, and the
\* operator's job now runs every 60 minutes.
C13_Witness ==
    \E u \in Users :
        /\ run[u].settings.auto_publish_enabled
        /\ run[u].settings.auto_publish_interval = 180
        /\ user_settings[u] # << >>
        /\ user_settings[u][1].auto_publish_enabled
        /\ user_settings[u][1].auto_publish_interval = 60
        /\ JobRecordsOf(jobs, u) =
              { [id |-> job_id(u), minutes |-> 60, args |-> << u >>] }

\* The operator's settings row says auto-publish is off (or there is no row).
StoredDisabled(u) ==
    \/ user_settings[u] = << >>
    \/ ~user_settings[u][1].auto_publish_enabled

\* A run of operator u is between its first statement and its return.
InFlight(u) == pc[u] \notin {"idle", "done"}

\* Switching auto-publish off removes the operator's job and touches no run.
C14_DisableStep ==
    \A u \in Users :
        ( ToggleAutoHandler(u) /\ ~StoredDisabled(u) )
        => /\ UNCHANGED << pc, run, trace >>
           /\ JobsOf(jobs', u) = {}
           /\ user_settings'[u] # << >>
           /\ ~user_settings'[u][1].auto_publish_enabled

\* A run of u starts only while u's job is registered and u is enabled.
C14_FiringStep ==
    \A u \in Users :
        ( ~InFlight(u) /\ pc'[u] = "get_settings" )
        => /\ JobsOf(jobs, u) # {}
           /\ ~StoredDisabled(u)

\* A run in flight can always take its next step, whatever the settings and
\* the job store say.
C14_InFlightRunCanStep ==
    \A u \in Users : InFlight(u) => ENABLED RunStep(u)

\* C14: switching auto-publish off for an operator while a run of that
\* operator is in flight leaves the run where it is, and the run can go on
\* through its remaining steps (publishing and writing its record included);
\* no run of the operator starts while auto-publish is off.
C14_DisableDoesNotInterrupt ==
    /\ [][C14_DisableStep /\ C14_FiringStep]_vars
    /\ []C14_InFlightRunCanStep

\* C14 witness: auto-publish was switched off while the operator's run was
\* before its create_post call; the run is still there and its next step can
\* create the site post.
C14_Witness ==
    \E u \in Users :
        /\ pc[u] = "create_post"
        /\ run[u].settings.auto_publish_enabled
        /\ user_settings[u] # << >>
        /\ ~user_settings[u][1].auto_publish_enabled
        /\ JobsOf(jobs, u) = {}
        /\ ENABLED (CreatePost(u) /\ wp_posts' # wp_posts)

\* Some add_article_fingerprint of a title equal to `title` after lower-casing
\* has occurred: only such a call stores a row with such an original_title.
AddedNormalizingTo(title) ==
    \E row \in article_fingerprints : Lower(row.original_title) = Lower(title)

\* C15: for every title T, check_duplicate(T) is false while no title
\* normalizing to T was added (in particular on the empty table); it is true
\* right after add_article_fingerprint(T); a second add_article_fingerprint(T)
\* leaves the table as the first left it, and check_duplicate(T) stays true.
C15_ContainsAfterAdd ==
    \A T \in FingerprintTitles :
        LET once  == add_article_fingerprint(article_fingerprints, T)
            twice == add_article_fingerprint(once, T)
        IN  /\ check_duplicate(article_fingerprints, T) <=> AddedNormalizingTo(T)
            /\ ~check_duplicate({}, T)
            /\ check_duplicate(once, T)
            /\ twice = once
            /\ check_duplicate(twice, T)
            /\ check_duplicate(article_fingerprints, T)
                  => once = article_fingerprints

\* C15 witness: "kL" was added, then titles of two other classes; adding
\* "kL" again is the second add of that title.
C15_Witness ==
    /\ Cardinality(article_fingerprints) = 3
    /\ \E row \in article_fingerprints : row.original_title = << "k", "L" >>
    /\ ~check_duplicate(article_fingerprints, << "k", "y" >>)
    /\ add_article_fingerprint(article_fingerprints, << "k", "L" >>)
          = article_fingerprints

\* C16: for all titles T1, T2: after add_article_fingerprint(T1),
\* check_duplicate(T2) is true if T1 and T2 are equal after lower-casing, and
\* if they are not, check_duplicate(T2) answers what it answered before (T1
\* does not make T2 a duplicate).
C16_DuplicateIffSameLowerCase ==
    \A T1, T2 \in FingerprintTitles :
        LET once == add_article_fingerprint(article_fingerprints, T1)
        IN  /\ Lower(T1) = Lower(T2) => check_duplicate(once, T2)
            /\ Lower(T1) # Lower(T2)
                  => ( check_duplicate(once, T2)
                         <=> check_duplicate(article_fingerprints, T2) )
            /\ ( Lower(T1) # Lower(T2) /\ article_fingerprints = {} )
                  => ~check_duplicate(once, T2)

\* C16 witness: "Kl" is stored, so "kL" (same after lower-casing) is reported
\* as a duplicate while "lk" and "ky" are not.
C16_Witness ==
    /\ article_fingerprints =
          { [title_hash |-> TitleHash(<< "K", "l" >>),
             original_title |-> << "K", "l" >>] }
    /\ check_duplicate(article_fingerprints, << "k", "L" >>)
    /\ ~check_duplicate(article_fingerprints, << "l", "k" >>)
    /\ ~check_duplicate(article_fingerprints, << "k", "y" >>)

\* C17: titles that differ only in leading or trailing whitespace (and case)
\* share a digest: once one of them is stored, check_duplicate of the other
\* answers true.
C17_TrimmedTitlesCollide ==
    \A T1, T2 \in FingerprintTitles :
        ( /\ Lower(Strip(T1)) = Lower(Strip(T2))
          /\ \E row \in article_fingerprints : row.original_title = T1 )
        => check_duplicate(article_fingerprints, T2)

\* `x` occurs in the sequence `seq`.
InSeq(x, seq) == \E i \in DOMAIN seq : seq[i] = x

\* No step removes or changes a stored fingerprint.
C18_FingerprintsKeptStep == article_fingerprints \subseteq article_fingerprints'

\* Digests are unique, and an add_article_fingerprint of any title on the
\* table as it stands keeps every stored row; if the title's digest is
\* stored, the table (the first writer's original_title included) stays as
\* it is.
C18_FirstWriterWins ==
    /\ \A r1, r2 \in article_fingerprints :
           r1.title_hash = r2.title_hash => r1 = r2
    /\ \A T \in Titles :
           LET after == add_article_fingerprint(article_fingerprints, T)
           IN  /\ article_fingerprints \subseteq after
               /\ check_duplicate(article_fingerprints, T)
                     => after = article_fingerprints

\* C18: the fingerprint table only grows: no step of the program (a run that
\* publishes, skips or fails, the deletion of a published article, the
\* saving or deletion of a draft, a settings callback) removes or modifies a
\* stored fingerprint, and adding a title whose digest is stored keeps the
\* row of the first insert.
C18_FingerprintsOnlyGrow ==
    /\ [][C18_FingerprintsKeptStep]_vars
    /\ []C18_FirstWriterWins

\* C18 witness: the article "Ky" was published and fingerprinted, its record
\* was deleted again and a draft was saved and deleted; the fingerprint is
\* still stored, and adding "ky" would leave it as it is.
C18_Witness ==
    /\ article_fingerprints =
          { [title_hash |-> TitleHash(<< "K", "y" >>),
             original_title |-> << "K", "y" >>] }
    /\ published_articles = {}
    /\ \E u \in Users : deletion[u].outcome = "deleted"
    /\ drafts = {}
    /\ next_draft_id = 2
    /\ add_article_fingerprint(article_fingerprints, << "k", "y" >>)
          = article_fingerprints

\* A step in which a destination's delete call is made leads to the next
\* phase, whether the call succeeded or failed.
C19_PhaseStep ==
    \A u \in Users :
        /\ ( deletion[u].pc = "delete_wp" /\ deletion'[u].wp_called )
              => deletion'[u].pc = "delete_tg"
        /\ ( deletion[u].pc = "delete_tg" /\ deletion'[u].tg_called )
              => deletion'[u].pc = "delete_db"

\* What holds of a confirmed deletion whose messages to the operator were
\* all delivered.
C19_CompletedDeletion ==
    \A u \in Users :
        LET d == deletion[u]
        IN  d.outcome = "deleted"
            => /\ ( d.article.published_to_wp /\ d.article.wp_post_id # None )
                     => /\ d.wp_called
                        /\ InSeq("WordPress", d.results)
                              # InSeq("WordPress", d.errors)
               /\ ( d.article.published_to_tg /\ d.article.tg_message_id # None )
                     => /\ d.tg_called
                        /\ InSeq("Telegram", d.results)
                              # InSeq("Telegram", d.errors)
               /\ InSeq("Database", d.results)
               /\ ~ \E row \in published_articles : row.id = d.article.id
               /\ \E i \in DOMAIN logs[u] :
                     /\ logs[u][i].action = "delete_article"
                     /\ logs[u][i].status =
                           (IF d.errors = << >> THEN "success" ELSE "error")

\* C19: confirmed deletion of a published article is best-effort per
\* destination: a site delete call, failed or not, is followed by the channel
\* phase, and a channel delete call by the database phase; in every deletion
\* that runs to its result message each destination the record references
\* was called, each failure is listed on its own among the errors, and the
\* local record is gone, also when both remote deletions failed.
C19_DeletionIsBestEffort ==
    /\ [][C19_PhaseStep]_vars
    /\ []C19_CompletedDeletion

\* C19 witness: a record referencing a site post and a channel message was
\* deleted although both remote deletions failed.
C19_Witness ==
    \E u \in Users :
        /\ deletion[u].outcome = "deleted"
        /\ deletion[u].article.wp_post_id # None
        /\ deletion[u].article.tg_message_id # None
        /\ deletion[u].errors = << "WordPress", "Telegram" >>
        /\ deletion[u].results = << "Database" >>
        /\ published_articles = {}

\* C20: in the deletion of a published article, a destination for which the
\* record stores no reference gets no delete call and appears neither among
\* the successes nor among the errors; a deletion that runs to its result
\* message has removed the local record, and reports no error if the record
\* referenced no destination at all.
C20_UnreferencedDestinationSkipped ==
    \A u \in Users :
        LET d == deletion[u]
        IN  /\ d.article.wp_post_id = None
                  => /\ ~d.wp_called
                     /\ ~InSeq("WordPress", d.results)
                     /\ ~InSeq("WordPress", d.errors)
            /\ d.article.tg_message_id = None
                  => /\ ~d.tg_called
                     /\ ~InSeq("Telegram", d.results)
                     /\ ~InSeq("Telegram", d.errors)
            /\ ( /\ d.outcome = "deleted"
                 /\ ( d.article.wp_post_id = None
                        \/ d.article.tg_message_id = None ) )
                  => ~ \E row \in published_articles : row.id = d.article.id
            /\ ( /\ d.outcome = "deleted"
                 /\ d.article.wp_post_id = None
                 /\ d.article.tg_message_id = None )
                  => /\ d.errors = << >>
                     /\ d.results = << "Database" >>

\* C20 witness: a record with a site post and no channel message was
\* deleted: the site was called, the channel was not.
C20_Witness ==
    \E u \in Users :
        /\ deletion[u].outcome = "deleted"
        /\ deletion[u].article.wp_post_id # None
        /\ deletion[u].article.tg_message_id = None
        /\ deletion[u].results = << "WordPress", "Database" >>
        /\ deletion[u].errors = << >>
        /\ ~deletion[u].tg_called
        /\ published_articles = {}

\* C21: a PublishRecord is deleted, and the deletion of its site post or
\* channel message is requested, only by callbacks of the operator who
\* created it: a confirm_delete_article call that has called a destination or
\* removed the record worked on a record of the calling operator.
C21_OnlyOwnerDeletes ==
    \A u \in Users :
        ( \/ deletion[u].wp_called
          \/ deletion[u].tg_called
          \/ InSeq("Database", deletion[u].results) )
        => deletion[u].article.user_id = u

\* C22: nothing is removed by a first delete callback: a delete_draft callback
\* (the button of the draft view, the only draft deletion callback of the
\* program) leaves the draft stored, as a delete_article callback leaves the
\* record, until a confirming callback follows its prompt.
C22_FirstDeleteCallbackRemovesNothing ==
    [][ \A u \in Users : \A d \in drafts :
            DeleteDraftHandler(u, d.id) => d \in drafts' ]_vars

\* The seed search of u's run returned no candidates.
SeedSearchEmpty(u) ==
    pc[u] = "notify_no_news" \/ Called(u, "send_message:no_news")

\* C23: a run whose seed search returned no candidates makes no secondary
\* search, no rewriter call, no destination call and no persistence write;
\* once its "no results" message is delivered the run is over with the
\* outcome "no results", and no error is logged or reported.
C23_EmptySeedStops ==
    \A u \in Users :
        SeedSearchEmpty(u)
        => /\ CallCount(u, "search_news") = 1
           /\ ~Called(u, "generate_article")
           /\ ~DestinationCalled(u)
           /\ ~PersistenceWritten(u)
           /\ CalledOk(u, "send_message:no_news")
                 => /\ pc[u] = "done"
                    /\ run[u].outcome = "no_news"
                    /\ ~Called(u, "log_action")
                    /\ ~Called(u, "send_message:error")

\* C23 witness: a run ended with the "no results" report.
C23_Witness ==
    \E u \in Users :
        /\ pc[u] = "done"
        /\ run[u].outcome = "no_news"
        /\ trace[u] = << Ev("search_news", TRUE),
                         Ev("send_message:no_news", TRUE) >>
        /\ logs[u] = << >>

\* C24: a run whose secondary search returned an empty source set does not
\* call the rewriter.
C24_EmptySourcesStop ==
    [][ \A u \in Users :
            ( pc[u] = "generate" /\ run[u].sources = 0 )
            => ~ \E i \in DOMAIN trace'[u] :
                     trace'[u][i].call = "generate_article" ]_vars

\* The contract calls of a run: aggregator, rewriter, site, channel.
ContractCalls == {"search_news", "generate_article", "create_post", "channel_send"}

\* C25: a finished run in which a contract call (aggregator search, rewriter,
\* create_post, channel send) failed ended as a pipeline failure: exactly one
\* audit log entry, with status error and the error text, was written and
\* the error text was sent to the operator.
C25_FailedCallIsPipelineFailure ==
    \A u \in Users :
        ( pc[u] = "done" /\ \E c \in ContractCalls : CalledFailed(u, c) )
        => /\ run[u].outcome = "error"
           /\ CallCount(u, "log_action") = 1
           /\ logs[u] # << >>
           /\ logs[u][Len(logs[u])].status = "error"
           /\ logs[u][Len(logs[u])].message = run[u].error
           /\ Called(u, "send_message:error")

\* Task c is inside a settings call for operator u, or has finished one.
CallFinishedFor(c, u) == calls[c].pc = "done" /\ calls[c].user_id = u

\* The operator's row goes from absent to present only as the defaults.
C26_CreatedWithDefaults ==
    \A u \in Users :
        (user_settings[u] = << >> /\ user_settings'[u] # << >>)
        => user_settings'[u] = << DefaultSettings(u) >>

\* An operator never has more than one settings row, and has exactly one
\* as soon as any get_user_settings / update_user_setting call for the
\* operator has finished, whether it returned or raised.
C26_OneRowPerOperator ==
    \A u \in Users :
        /\ Len(user_settings[u]) <= 1
        /\ (\E c \in Callers : CallFinishedFor(c, u))
           => Len(user_settings[u]) = 1
        /\ \A c \in Callers :
               (CallFinishedFor(c, u) /\ calls[c].op = "get" /\ ~calls[c].raised)
               => /\ Len(calls[c].result) = 1
                  /\ calls[c].result[1].user_id = u

UploadFailedAt(tr, i) == tr[i] = Ev("upload_image", FALSE)

\* Some call other than the cover image upload failed in tr.
OtherCallFailed(tr) ==
    \E i \in DOMAIN tr : ~tr[i].ok /\ tr[i].call # "upload_image"

\* The scheduled run of u after a failed upload: no cover image is kept, the
\* next call is create_post when the site is requested, the post is created
\* without a cover, and the run ends in the except clause only if another
\* call failed.
C27_ScheduledUploadNonFatal(u) ==
    \A i \in DOMAIN trace[u] :
        UploadFailedAt(trace[u], i)
        => /\ run[u].featured_media_id = None
           /\ run[u].settings.auto_publish_to_wp
              => /\ pc[u] # "create_post" => i < Len(trace[u])
                 /\ i < Len(trace[u]) => trace[u][i + 1].call = "create_post"
           /\ \A p \in wp_posts :
                  p.id = run[u].wp_post_id => p.featured_media = None
           /\ pc[u] \in {"log_error", "notify_error"} \/ run[u].outcome = "error"
              => OtherCallFailed(trace[u])
           /\ (pc[u] = "done" /\ ~OtherCallFailed(trace[u]))
              => run[u].outcome = "success"

\* The same for the manual publish handlers, where the progress message
\* "Створюю пост на WordPress..." comes between the upload and create_post.
C27_ManualUploadNonFatal(u) ==
    LET tr == manual[u].trace
    IN  \A i \in DOMAIN tr :
            UploadFailedAt(tr, i)
            => /\ manual[u].featured_media_id = None
               /\ manual[u].pc # "create_post" => i < Len(tr)
               /\ i < Len(tr) => tr[i + 1].call = "edit_text"
               /\ (i + 1 < Len(tr) /\ tr[i + 1].ok)
                  => tr[i + 2].call = "create_post"
               /\ \A p \in wp_posts :
                      p.id = manual[u].wp_post_id => p.featured_media = None
               /\ manual[u].pc \in {"log_error", "notify_error"}
                      \/ manual[u].outcome = "error"
                  => OtherCallFailed(tr)
               /\ (manual[u].pc = "done" /\ ~OtherCallFailed(tr))
                  => manual[u].outcome = "success"

\* C27: a failure of the cover image upload is non-fatal: create_post is
\* still called, without a cover image, and the outcome of the run is
\* decided by the calls that follow, in the scheduled pipeline and in both
\* manual publish handlers.
C27_UploadFailureIsNonFatal ==
    \A u \in Users :
        C27_ScheduledUploadNonFatal(u) /\ C27_ManualUploadNonFatal(u)

\* A scheduled run lost the cover image and still published to the site.
C27_ScheduledCase ==
    /\ pc[1] = "done" /\ run[1].outcome = "success"
    /\ CalledFailed(1, "upload_image") /\ CalledOk(1, "create_post")
    /\ \E p \in wp_posts : p.id = run[1].wp_post_id /\ p.featured_media = None

\* A manual publication by each of the two handlers lost the cover image
\* and still published to the site.
C27_ManualCase(handler) ==
    \E u \in Users :
        /\ manual[u].handler = handler
        /\ manual[u].pc = "done" /\ manual[u].outcome = "success"
        /\ InSeq(Ev("upload_image", FALSE), manual[u].trace)
        /\ InSeq(Ev("create_post", TRUE), manual[u].trace)
        /\ \E p \in wp_posts :
               p.id = manual[u].wp_post_id /\ p.featured_media = None

C27_Witness == C27_ManualCase("publish")

\* How many channel sends the call sequence tr holds.
ChannelSends(tr) ==
    Cardinality({ i \in DOMAIN tr : tr[i].call = "channel_send" })

\* How many channel sends in the call sequence tr went through.
ChannelSendsOk(tr) ==
    Cardinality({ i \in DOMAIN tr : tr[i] = Ev("channel_send", TRUE) })

\* The message a publication with locals r and calls tr put into the
\* channel carries the link exactly if create_post succeeded in that
\* publication, and the link is that post's.
C28_LinkIffSiteSucceeded(r, tr) ==
    \A m \in channel :
        m.message_id = r.tg_message_id
        => /\ m.link # None <=> InSeq(Ev("create_post", TRUE), tr)
           /\ m.link = r.wp_url

\* A publication makes at most one channel send, none if it does not ask for
\* the channel, and one that went through if it asked for the channel and
\* ended with success; the message it keeps the id of is in the channel.
C28_OneSend(r, tr, requested, succeeded) ==
    /\ ChannelSends(tr) <= 1
    /\ ~requested => ChannelSends(tr) = 0
    /\ (requested /\ succeeded) => ChannelSendsOk(tr) = 1
    /\ ChannelSendsOk(tr) = 1
       <=> \E m \in channel : m.message_id = r.tg_message_id

C28_ManualCase(publish_type) ==
    \E u \in Users :
        /\ manual[u].publish_type = publish_type
        /\ manual[u].outcome = "success"
        /\ \E m \in channel :
               /\ m.message_id = manual[u].tg_message_id
               /\ m.link # None <=> publish_type = "both"

\* Character i of the title separates words: a space or a stripped character.
IsSeparator(title, i) == title[i] \in StrippedChars \cup {" "}

\* The maximal runs << i, j >> of non-separating characters of the title
\* that are longer than two characters.
SignificantRuns(title) ==
    { r \in (DOMAIN title) \X (DOMAIN title) :
        /\ r[1] + 2 <= r[2]
        /\ \A k \in r[1]..r[2] : ~IsSeparator(title, k)
        /\ r[1] = 1 \/ IsSeparator(title, r[1] - 1)
        /\ r[2] = Len(title) \/ IsSeparator(title, r[2] + 1) }

\* The run r is the t-th significant run of the title.
IsNthRun(title, r, t) ==
    /\ r \in SignificantRuns(title)
    /\ Cardinality({ q \in SignificantRuns(title) : q[1] < r[1] }) = t - 1

\* C29: extract_keywords_from_title(title, N) answers at most N tokens, taken
\* in order from the start of the title, each longer than two characters and
\* free of the stripped characters; when the title is empty or nothing
\* significant is left, it answers the default topic.
C29_KeywordsFromTitle ==
    util.fn = "extract_keywords_from_title"
    => LET title  == util.text
           tokens == Split(util.result)
           runs   == SignificantRuns(title)
           k      == IF util.n < Cardinality(runs)
                     THEN util.n ELSE Cardinality(runs)
       IN  /\ \A t \in DOMAIN tokens :
                  /\ Len(tokens[t]) > 2
                  /\ \A i \in DOMAIN tokens[t] : tokens[t][i] \notin StrippedChars
           /\ util.result = Join(tokens)
           /\ k = 0 => util.result = DefaultTopic
           /\ k > 0 =>
                  /\ Len(tokens) = k
                  /\ \A t \in 1..k :
                         \E r \in runs :
                             /\ IsNthRun(title, r, t)
                             /\ tokens[t] = SubSeq(title, r[1], r[2])

\* The title "a,bbb a" with at most two words: the one-letter words and the
\* comma go, "bbb" is the answer.
C29_Witness ==
    /\ util.fn = "extract_keywords_from_title"
    /\ util.text = << "a", ",", "b", "b", "b", " ", "a" >>
    /\ util.n = 2
    /\ util.result = << "b", "b", "b" >>

\* Two significant words and a limit of one: the first one is the answer.
C29_LimitCase ==
    /\ util.fn = "extract_keywords_from_title"
    /\ util.text = << "a", "a", "a", ",", "b", "b", "b" >>
    /\ util.n = 1
    /\ util.result = << "a", "a", "a" >>

\* The tags the channel supports: b, i, u, s, code, pre, a.
SupportedTags == AllowedPrefixes

\* A complete tag begins at position i of the text.
TagAt(text, i) ==
    /\ text[i] = "<"
    /\ \E j \in DOMAIN text : j > i /\ text[j] = ">"

\* The name of the tag that begins at position i.
TagNameAt(text, i) ==
    LET first == IF text[i + 1] = "/" THEN i + 2 ELSE i + 1
        stop  == CHOOSE j \in first..Len(text) :
                     /\ text[j] \in {" ", ">"}
                     /\ \A k \in first..(j - 1) : text[k] \notin {" ", ">"}
    IN  SubSeq(text, first, stop - 1)

\* The text sub occurs in the text at position i.
OccursAt(text, sub, i) ==
    /\ i + Len(sub) - 1 <= Len(text)
    /\ SubSeq(text, i, i + Len(sub) - 1) = sub

\* The last call is html_to_telegram and its result was not cut.
HtmlUncut ==
    /\ util.fn = "html_to_telegram"
    /\ util.result =
           StripWhitespace(CollapseNewlines(Flatten(ConvertTags(util.text)), 0))

\* Every complete tag of the output is one of the supported tags.
C30_OnlySupportedTags ==
    util.fn = "html_to_telegram"
    => \A i \in DOMAIN util.result :
           TagAt(util.result, i) => TagNameAt(util.result, i) \in SupportedTags

\* A heading around a letter comes out as the letter in bold.
C30_HeadingsBecomeBold ==
    HtmlUncut
    => \A i \in DOMAIN util.text :
           ( /\ i + 2 <= Len(util.text)
             /\ IsOpen("heading", util.text[i])
             /\ util.text[i + 1] = Text("T")
             /\ IsClose("heading", util.text[i + 2]) )
           => \E k \in DOMAIN util.result :
                  OccursAt(util.result,
                           << "<", "b", ">", "T", "<", "/", "b", ">" >>, k)

\* A list item around a letter comes out as a line that begins with the
\* bullet.
C30_ListItemsBecomeBullets ==
    HtmlUncut
    => \A i \in DOMAIN util.text :
           ( /\ i + 2 <= Len(util.text)
             /\ util.text[i] = OpenTag(<< "l", "i" >>, FALSE)
             /\ util.text[i + 1] = Text("T")
             /\ util.text[i + 2] = CloseTag(<< "l", "i" >>) )
           => \E k \in DOMAIN util.result :
                  /\ OccursAt(util.result, << "*", " ", "T" >>, k)
                  /\ k = 1 \/ util.result[k - 1] = "\n"

\* The output is never longer than max_length.
C30_LengthCapped ==
    util.fn = "html_to_telegram" => Len(util.result) <= util.n

\* C30: the output of html_to_telegram contains only tags of the supported
\* set (b, i, u, s, code, pre, a): every heading becomes bold text, every
\* list item a bullet-prefixed line, every other tag is stripped, and the
\* output is never longer than max_length.
C30_HtmlToTelegram ==
    /\ C30_OnlySupportedTags
    /\ C30_HeadingsBecomeBold
    /\ C30_ListItemsBecomeBullets
    /\ C30_LengthCapped

\* '<span>T' comes out as it went in.
C30_SpanSurvives ==
    /\ util.fn = "html_to_telegram"
    /\ util.text = << OpenTag(<< "s", "p", "a", "n" >>, FALSE), Text("T") >>
    /\ util.n = 60
    /\ util.result = << "<", "s", "p", "a", "n", ">", "T" >>

\* '<h2>T</h2><ul><li>T</li></ul>' comes out as bold T, an empty line and a
\* bullet line.
C30_HeadingAndListCase ==
    /\ util.fn = "html_to_telegram"
    /\ util.text = HeadingAndList
    /\ util.n = 60
    /\ util.result = << "<", "b", ">", "T", "<", "/", "b", ">", "\n", "\n",
                        "*", " ", "T" >>

\* The positions of a run on its way to a publication, in the order of the
\* code.
StageOrder ==
    << "get_settings", "search_seed", "search_sources", "generate",
       "resolve_category", "check_duplicate", "upload_image", "create_post",
       "channel_send", "save_record", "add_fingerprint", "update_last_publish",
       "notify_success", "log_success" >>

\* The positions of a run that is leaving: a gate that closed, the except
\* clause, the end.
ExitPositions ==
    { "notify_no_news", "notify_skipped", "notify_duplicate", "log_error",
      "notify_error", "done" }

\* The place of position p in the order (0 if it is no stage).
StageRank(p) ==
    IF \E i \in DOMAIN StageOrder : StageOrder[i] = p
    THEN CHOOSE i \in DOMAIN StageOrder : StageOrder[i] = p
    ELSE 0

\* A step of a run goes to the next stage or leaves; a run that is leaving
\* never comes back to a stage, it only starts again at the next firing.
C31_StageStep ==
    \A u \in Users :
        pc'[u] # pc[u]
        => /\ StageRank(pc[u]) > 0
              => \/ StageRank(pc'[u]) = StageRank(pc[u]) + 1
                 \/ pc'[u] \in ExitPositions
           /\ pc[u] \in ExitPositions \ {"done"} => pc'[u] \in ExitPositions
           /\ pc[u] \in {"done", "idle"} => pc'[u] = "get_settings"

\* The place of a call in the order of the code.
CallRank(call) ==
    CASE call = "search_news"              -> 1
      [] call = "generate_article"         -> 2
      [] call = "upload_image"             -> 3
      [] call = "create_post"              -> 4
      [] call = "channel_send"             -> 5
      [] call = "save_published_article"   -> 6
      [] call = "add_article_fingerprint"  -> 7
      [] call = "update_last_publish_time" -> 8
      [] OTHER                             -> 9

\* The calls of a run come in the order of the code, and a destination is
\* called only by a run whose category filter and duplicate check passed.
C31_CallsInOrder ==
    \A u \in Users :
        /\ \A i, j \in DOMAIN trace[u] :
               i < j => CallRank(trace[u][i].call) <= CallRank(trace[u][j].call)
        /\ DestinationCalled(u)
           => /\ CalledOk(u, "generate_article")
              /\ run[u].dup = "no"
              /\ ~CategoryFiltered(run[u].settings.enabled_categories,
                                   run[u].category_id)
              /\ run[u].category_id = get_category_id_by_name(run[u].category)
        /\ PersistenceWritten(u) => StageRank(pc[u]) > 9 \/ pc[u] \in ExitPositions

\* C31: a scheduled run goes through settings check, seed search, secondary
\* search, rewrite, category filter, duplicate check, publish, record,
\* fingerprint and last_publish_time in this order, a gate that closes
\* prevents every later step, and no site or channel call is made before the
\* category filter and the duplicate check of the run have passed.
C31_GatesInFixedOrder == [][C31_StageStep]_vars /\ []C31_CallsInOrder

\* A run went through every stage and made every call.
C31_Witness ==
    \E u \in Users :
        /\ pc[u] = "done" /\ run[u].outcome = "success"
        /\ CalledOk(u, "upload_image") /\ CalledOk(u, "create_post")
        /\ CalledOk(u, "channel_send")
        /\ CalledOk(u, "update_last_publish_time")

\* The outcomes of a run that published nothing.
FailedOrSkipped == {"error", "no_news", "skipped", "duplicate"}

\* A step of a run leaves the job store as it is.
C32_RunStepKeepsJobs ==
    \A u \in Users :
        (pc[u] \notin {"idle", "done"} /\ pc'[u] # pc[u]) => jobs' = jobs

\* A run makes each of its calls once (the search twice: seed and sources),
\* and a run that failed or was skipped with the operator's job registered
\* can be fired again.
C32_NoRetryAndFiresAgain ==
    \A u \in Users :
        /\ CallCount(u, "search_news") <= 2
        /\ \A c \in {"generate_article", "upload_image", "create_post",
                     "channel_send", "save_published_article"} :
               CallCount(u, c) <= 1
        /\ ( /\ pc[u] = "done"
             /\ run[u].outcome \in FailedOrSkipped
             /\ JobsOf(jobs, u) # {}
             /\ nruns < MaxRuns )
           => ENABLED Fire(u)

\* C32: a run that ends in failure or in a skip makes no retry within the
\* run and leaves the operator's schedule alone: the job stays registered
\* with its interval, so the pipeline is invoked again at the next interval.
C32_FailedRunKeepsSchedule ==
    [][C32_RunStepKeepsJobs]_vars /\ []C32_NoRetryAndFiresAgain

\* A run failed at the site, the operator's job is registered as before and
\* fires a second time.
C32_Witness ==
    \E u \in Users :
        /\ pc[u] = "done" /\ run[u].outcome = "error"
        /\ CalledFailed(u, "create_post")
        /\ Cardinality(JobsOf(jobs, u)) = 1
        /\ \A i \in JobsOf(jobs, u) :
               jobs[i].minutes =
                   get_user_settings(user_settings, u).auto_publish_interval
        /\ ENABLED Fire(u)

\* ------------------------------------------------------- process restart

\* main(): a new process builds Database over the same PostgreSQL data, a
\* Dispatcher over a new MemoryStorage, and AutoPublishScheduler(bot, db)
\* whose AsyncIOScheduler() has an empty in-memory job store; scheduler.start()
\* registers nothing, and no statement of main reads user_settings.  Every
\* task of the previous process is gone with it.
Restart ==
    /\ jobs' = << >>
    /\ pc' = [u \in Users |-> "idle"]
    /\ run' = [u \in Users |-> InitRun(u)]
    /\ trace' = [u \in Users |-> << >>]
    /\ deletion' = [u \in Users |-> InitDeletion]
    /\ manual' = [u \in Users |-> InitManual]
    /\ calls' = [c \in Callers |-> InitCall]
    /\ UNCHANGED << dbVars, remoteVars, nruns, nops, drafts, next_draft_id,
                    ndeletes, util >>

\* The bot's settings callbacks, with the process restarted at any moment.
NextRestart ==
    \/ \E u \in Users : SettingsStep(u)
    \/ Restart

SpecRestart == Init /\ [][NextRestart]_vars

\* The bot's settings callbacks within one process lifetime.
NextLifetime == \E u \in Users : SettingsStep(u)

SpecLifetime == Init /\ [][NextLifetime]_vars

\* C33: between settings callbacks, an operator has a registered job exactly
\* when the stored auto_publish_enabled is true, and that job's interval is
\* the stored auto_publish_interval; also after a restart of the process.
C33_ScheduleMatchesSettings ==
    \A u \in Users :
        /\ (JobsOf(jobs, u) # {}) <=> ~StoredDisabled(u)
        /\ \A j \in JobsOf(jobs, u) :
               /\ user_settings[u] # << >>
               /\ jobs[j].minutes = user_settings[u][1].auto_publish_interval

\* C34: once a run has returned, every site post it created and every
\* channel message it sent is referenced by a stored PublishRecord, and the
\* fingerprint of its title is stored; a failure later in the run leaves no
\* publication without record and fingerprint.
C34_NoOrphanPublications ==
    \A u \in Users :
        pc[u] = "done"
        => /\ CalledOk(u, "create_post")
              => /\ \E rec \in published_articles :
                        rec.wp_post_id = run[u].wp_post_id
                 /\ HasFingerprint(run[u].title)
           /\ CalledOk(u, "channel_send")
              => /\ \E rec \in published_articles :
                        rec.tg_message_id = run[u].tg_message_id
                 /\ HasFingerprint(run[u].title)

\* A stored PublishRecord's flags agree with its ids.
RecordConsistent(rec) ==
    /\ rec.published_to_wp <=> rec.wp_post_id # None
    /\ rec.published_to_tg <=> rec.tg_message_id # None

\* C35: in every stored PublishRecord, published_to_wp is true exactly when
\* wp_post_id is present and published_to_tg is true exactly when
\* tg_message_id is present, whichever of the scheduled pipeline,
\* publish_handler and process_manual_publish wrote it.
C35_RecordsConsistent == \A rec \in published_articles : RecordConsistent(rec)

\* publish_handler has published to the site only and stored the record.
C35_Witness ==
    \E u \in Users :
        /\ manual[u].pc = "done"
        /\ manual[u].outcome = "success"
        /\ manual[u].handler = "publish"
        /\ manual[u].publish_type = "wp"
        /\ \E rec \in published_articles :
               /\ rec.user_id = u
               /\ rec.wp_post_id = manual[u].wp_post_id
               /\ rec.published_to_wp
               /\ ~rec.published_to_tg
               /\ rec.tg_message_id = None

\* One scheduled firing, and a manual publication by the same operator once
\* the scheduled run has returned.
NextRepublish ==
    \E u \in Publishers :
        \/ SettingsStep(u)
        \/ nruns = 0 /\ Fire(u)
        \/ RunStep(u)
        \/ pc[u] = "done" /\ ManualPublishCallback(u)
        \/ ManualPublishStep(u)

SpecRepublish == Init /\ [][NextRepublish]_vars

\* A manual publication that has just delivered to the site or to the
\* channel did so with no fingerprint of its title stored (the table is as
\* it was when the handler started, up to the handler's own insert, which
\* comes later).
ManualGateApplied ==
    \A u \in Users :
        ( \/ /\ manual[u].pc = "channel_send"
             /\ InSeq(Ev("create_post", TRUE), manual[u].trace)
          \/ /\ manual[u].pc = "save_record"
             /\ InSeq(Ev("channel_send", TRUE), manual[u].trace) )
        => ~HasFingerprint(manual[u].title)

\* No two site posts, and no two channel messages, have the same title up
\* to case.
NoTitleDeliveredTwice ==
    /\ \A p1, p2 \in wp_posts :
           Lower(p1.title) = Lower(p2.title) => p1 = p2
    /\ \A m1, m2 \in channel :
           Lower(m1.title) = Lower(m2.title) => m1 = m2

\* C36: publish_handler and process_manual_publish apply the duplicate gate
\* of the scheduled pipeline: they deliver nothing whose title has a stored
\* fingerprint, so no sequence of scheduled and manual publications delivers
\* the same title (up to case) twice.
C36_ManualDuplicateGate == ManualGateApplied /\ NoTitleDeliveredTwice

\* C37: a scheduled run calls no destination that the settings it read do
\* not request: with auto_publish_to_wp false it calls neither upload_image
\* nor create_post, with auto_publish_to_tg false it sends nothing to the
\* channel.
C37_OnlyRequestedDestinations ==
    \A u \in Users :
        /\ ~run[u].settings.auto_publish_to_wp
           => ~Called(u, "upload_image") /\ ~Called(u, "create_post")
        /\ ~run[u].settings.auto_publish_to_tg
           => ~Called(u, "channel_send")

\* C38: a scheduled run whose category name resolves to no category
\* reference calls neither create_post nor save_published_article, with or
\* without a category restriction; no site post and no PublishRecord has an
\* absent category reference.
C38_NoUnresolvedCategory ==
    /\ \A u \in Users :
           run[u].category_id = None
           => /\ ~Called(u, "create_post")
              /\ ~Called(u, "save_published_article")
    /\ \A post \in wp_posts : post.category_id # None
    /\ \A rec \in published_articles : rec.category_id # None

\* ----------------------------------------------------- callback dispatch

\* Callback data as the words and separators it is written with.
PublishWp == << "publish", "_", "wp" >>
PublishTg == << "publish", "_", "tg" >>
PublishBoth == << "publish", "_", "both" >>
PublishManualWp == << "publish", "_", "manual", "_", "wp" >>
PublishManualTg == << "publish", "_", "manual", "_", "tg" >>
PublishManualBoth == << "publish", "_", "manual", "_", "both" >>
PublishManualArticle == << "publish", "_", "manual", "_", "article" >>
PublishMenu == << "publish", "_", "menu" >>
PublishDraft == << "publish", "_", "draft", ":", "1" >>
PublishTargets == << "publish", "_", "targets" >>

\* The callback data of the buttons the bot's keyboards carry whose text
\* begins with "publish".
CallbackData ==
    { PublishWp, PublishTg, PublishBoth, PublishManualWp, PublishManualTg,
      PublishManualBoth, PublishManualArticle, PublishMenu, PublishDraft,
      PublishTargets }

\* The @router.callback_query registrations whose filter can match data that
\* begins with "publish", in the order the module registers them.
CallbackRoutes ==
    << [ handler |-> "publish_manual_article_handler", op |-> "eq",
         pattern |-> PublishManualArticle ],
       [ handler |-> "process_manual_publish", op |-> "startswith",
         pattern |-> << "publish", "_", "manual", "_" >> ],
       [ handler |-> "publish_menu_handler", op |-> "eq",
         pattern |-> PublishMenu ],
       [ handler |-> "publish_handler", op |-> "startswith",
         pattern |-> << "publish", "_" >> ],
       [ handler |-> "publish_draft_handler", op |-> "startswith",
         pattern |-> << "publish", "_", "draft", ":" >> ],
       [ handler |-> "publish_targets_handler", op |-> "eq",
         pattern |-> PublishTargets ] >>

\* F.data == pattern, F.data.startswith(pattern)
Matches(route, data) ==
    IF route.op = "eq" THEN data = route.pattern
    ELSE HasPrefix(data, route.pattern)

\* The router calls the first registered handler whose filter matches.
dispatch(data) ==
    LET hits == { i \in DOMAIN CallbackRoutes : Matches(CallbackRoutes[i], data) }
    IN  IF hits = {} THEN "unhandled"
        ELSE CallbackRoutes[CHOOSE i \in hits : \A j \in hits : i <= j].handler

\* str.split(sep): the pieces between the separators, empty ones included.
RECURSIVE SplitSep(_, _, _)
SplitSep(text, sep, piece) ==
    IF text = << >> THEN << piece >>
    ELSE IF Head(text) = sep
         THEN << piece >> \o SplitSep(Tail(text), sep, << >>)
         ELSE SplitSep(Tail(text), sep, Append(piece, Head(text)))

\* The string a piece is.
RECURSIVE Str(_)
Str(piece) == IF piece = << >> THEN "" ELSE Head(piece) \o Str(Tail(piece))

\* publish_handler: publish_type = callback.data.split("_")[1]
publish_type_of(data) == Str(SplitSep(data, "_", << >>)[2])

\* process_manual_publish: publish_type = callback.data.split("_")[-1]
manual_publish_type_of(data) ==
    LET pieces == SplitSep(data, "_", << >>) IN Str(pieces[Len(pieces)])

\* A handler that shows a menu and publishes nothing: publish_menu_handler,
\* publish_manual_article_handler, publish_targets_handler and
\* publish_draft_handler (which also loads the draft into the FSM state).
MenuHandler(u, handler) ==
    /\ manual[u].pc \in {"idle", "done"}
    /\ ManualCount < MaxManual
    /\ manual' = [manual EXCEPT ![u] =
           [InitManual EXCEPT !.handler = handler, !.pc = "done",
                              !.outcome = "menu", !.n = manual[u].n + 1]]
    /\ UNCHANGED << dbVars, jobs, remoteVars, pc, run, trace, nruns, nops,
                    deleteVars, calls, util >>

\* The operator presses a button: the router picks the handler by the data.
CallbackQuery(u) ==
    \E data \in CallbackData :
        LET handler == dispatch(data)
        IN  IF handler = "publish_handler"
            THEN \E title \in ManualTitles, image \in BOOLEAN,
                    has_article \in BOOLEAN :
                     PublishHandler(u, "publish", publish_type_of(data),
                                    title, image, has_article)
            ELSE IF handler = "process_manual_publish"
            THEN \E title \in ManualTitles, image \in BOOLEAN :
                     PublishHandler(u, "publish_manual",
                                    manual_publish_type_of(data), title,
                                    image, TRUE)
            ELSE MenuHandler(u, handler)

\* The buttons whose data begins with "publish", pressed by any operator.
NextDispatch ==
    \E u \in Users :
        \/ CallbackQuery(u)
        \/ ManualPublishStep(u)

SpecDispatch == Init /\ [][NextDispatch]_vars

\* C39: "publish_targets" is handled by publish_targets_handler and
\* "publish_draft:<id>" by publish_draft_handler; publish_handler and
\* process_manual_publish only run with a publish type of wp, tg or both,
\* so no PublishRecord is stored for a publication that asked for no
\* destination.
C39_DispatchReachesIntended ==
    /\ dispatch(PublishTargets) = "publish_targets_handler"
    /\ dispatch(PublishDraft) = "publish_draft_handler"
    /\ \A u \in Users :
           manual[u].handler \in ManualHandlers
           => manual[u].publish_type \in PublishTypes
    /\ \A rec \in published_articles :
           rec.published_to_wp \/ rec.published_to_tg

\* ------------------------------------------------- retry of a publication

\* After an error the handlers leave the FSM state as it is (state.clear()
\* is on the success path only) and show "Спробувати ще", which leads back
\* to the publish menu: the operator picks a destination again and the same
\* handler runs on the same article.
RetryPublish(u) ==
    /\ manual[u].outcome = "error"
    /\ manual[u].n <= MaxRetries
    /\ \E publish_type \in PublishTypes :
           StartPublish(u, manual[u].handler, publish_type, manual[u].title,
                        manual[u].image, TRUE)

\* One manual publication and the operator's retries of it.
NextRetry ==
    \E u \in Users :
        \/ ManualPublishCallback(u)
        \/ ManualPublishStep(u)
        \/ RetryPublish(u)

SpecRetry == Init /\ [][NextRetry]_vars

\* C40: when a manual publication to both destinations created the site
\* post and then failed, the operator's retry of the same article creates no
\* second site post: the site never holds two posts of the article.
C40_RetryCreatesNoSecondPost ==
    \A u \in Users :
        manual[u].n >= 2
        => Cardinality({ post \in wp_posts : post.title = manual[u].title }) <= 1

====
